---- MODULE Spec2Model ----
(***************************************************************************)
(* The stepping debugger of antlr4-graps (src/src/GrapsDebugger.ts):       *)
(* GrapsDebugger drives a GrapsParserInterpreter over a parser ATN under   *)
(* the run modes Normal / StepIn / StepOver / StepOut, keeps a call stack  *)
(* of rule frames and a set of breakpoint states, recovers from match      *)
(* failures and notifies listeners through an event emitter.               *)
(*                                                                         *)
(* The ATN walk of the antlr4ts ParserInterpreter (visitState,             *)
(* visitRuleStopState, enterRule, match, the default error strategy) is    *)
(* modelled at the places where GrapsDebugger.ts calls it.                 *)
(***************************************************************************)
EXTENDS Integers, Sequences, FiniteSets, TLC

\* ---------------------------------------------------------------- bounds
MaxInputLen == 2       \* longest input (in tokens) handed to start()
MaxCalls == 3          \* start/continue/step calls made in one session
MaxBreakPoints == 1    \* addBreakPoint calls made in one session

\* ------------------------------------------------------- program constants
INVALID_STATE_NUMBER == -1

Max(a, b) == IF a >= b THEN a ELSE b
Min(a, b) == IF a <= b THEN a ELSE b
Last(s) == s[Len(s)]
Front(s) == SubSeq(s, 1, Len(s) - 1)

\* ------------------------------------------------------------ parser ATNs
Eps(t) == [type |-> "EPSILON", target |-> t, label |-> "", follow |-> -1, precedence |-> 0]
Atom(l, t) == [type |-> "ATOM", target |-> t, label |-> l, follow |-> -1, precedence |-> 0]
RuleT(t, f, pr) == [type |-> "RULE", target |-> t, label |-> "", follow |-> f, precedence |-> pr]
PrecT(pr, t) == [type |-> "PRECEDENCE", target |-> t, label |-> "", follow |-> -1, precedence |-> pr]
St(ty, r, tr) == [stateType |-> ty, ruleIndex |-> r, transitions |-> tr]

\* a: B C;
AtnSeq ==
  [ states |-> [n \in 0..4 |->
       CASE n = 0 -> St("RULE_START", 0, <<Eps(2)>>)
         [] n = 1 -> St("RULE_STOP", 0, <<>>)
         [] n = 2 -> St("BASIC", 0, <<Atom("B", 3)>>)
         [] n = 3 -> St("BASIC", 0, <<Atom("C", 4)>>)
         [] n = 4 -> St("BASIC", 0, <<Eps(1)>>)],
    ruleToStartState |-> [r \in {0} |-> 0],
    ruleToStopState |-> [r \in {0} |-> 1],
    isPrecedenceRule |-> [r \in {0} |-> FALSE],
    ruleRange |-> [r \in {0} |-> [start |-> 2, end |-> 3]] ]

\* a: B a D | b;   b: C b?;
AtnCalls ==
  [ states |-> [n \in 0..16 |->
       CASE n = 0 -> St("RULE_START", 0, <<Eps(4)>>)
         [] n = 1 -> St("RULE_STOP", 0, <<>>)
         [] n = 2 -> St("RULE_START", 1, <<Eps(12)>>)
         [] n = 3 -> St("RULE_STOP", 1, <<>>)
         [] n = 4 -> St("BLOCK_START", 0, <<Eps(5), Eps(9)>>)
         [] n = 5 -> St("BASIC", 0, <<Atom("B", 6)>>)
         [] n = 6 -> St("BASIC", 0, <<RuleT(0, 7, 0)>>)
         [] n = 7 -> St("BASIC", 0, <<Atom("D", 8)>>)
         [] n = 8 -> St("BASIC", 0, <<Eps(11)>>)
         [] n = 9 -> St("BASIC", 0, <<RuleT(2, 10, 0)>>)
         [] n = 10 -> St("BASIC", 0, <<Eps(11)>>)
         [] n = 11 -> St("BLOCK_END", 0, <<Eps(1)>>)
         [] n = 12 -> St("BASIC", 1, <<Atom("C", 13)>>)
         [] n = 13 -> St("BLOCK_START", 1, <<Eps(14), Eps(16)>>)
         [] n = 14 -> St("BASIC", 1, <<RuleT(2, 15, 0)>>)
         [] n = 15 -> St("BASIC", 1, <<Eps(16)>>)
         [] n = 16 -> St("BLOCK_END", 1, <<Eps(3)>>)],
    ruleToStartState |-> [r \in 0..1 |-> 2 * r],
    ruleToStopState |-> [r \in 0..1 |-> 2 * r + 1],
    isPrecedenceRule |-> [r \in 0..1 |-> FALSE],
    ruleRange |-> [r \in 0..1 |->
       CASE r = 0 -> [start |-> 1, end |-> 1]
         [] r = 1 -> [start |-> 2, end |-> 2]] ]

\* e: e D e | B;   (a precedence rule: e[p]: B ( {1 >= p}? D e[2] )* ;)
AtnPrec ==
  [ states |-> [n \in 0..11 |->
       CASE n = 0 -> St("RULE_START", 0, <<Eps(2)>>)
         [] n = 1 -> St("RULE_STOP", 0, <<>>)
         [] n = 2 -> St("BASIC", 0, <<Atom("B", 3)>>)
         [] n = 3 -> St("BASIC", 0, <<Eps(4)>>)
         [] n = 4 -> St("STAR_LOOP_ENTRY", 0, <<Eps(5), Eps(10)>>)
         [] n = 5 -> St("STAR_BLOCK_START", 0, <<Eps(6)>>)
         [] n = 6 -> St("BASIC", 0, <<PrecT(1, 7)>>)
         [] n = 7 -> St("BASIC", 0, <<Atom("D", 8)>>)
         [] n = 8 -> St("BASIC", 0, <<RuleT(0, 9, 2)>>)
         [] n = 9 -> St("BLOCK_END", 0, <<Eps(11)>>)
         [] n = 10 -> St("LOOP_END", 0, <<Eps(1)>>)
         [] n = 11 -> St("STAR_LOOP_BACK", 0, <<Eps(4)>>)],
    ruleToStartState |-> [r \in {0} |-> 0],
    ruleToStopState |-> [r \in {0} |-> 1],
    isPrecedenceRule |-> [r \in {0} |-> TRUE],
    ruleRange |-> [r \in {0} |-> [start |-> 1, end |-> 1]] ]

Grammars == {"seq", "calls", "prec"}
AtnOf(g) == CASE g = "seq" -> AtnSeq [] g = "calls" -> AtnCalls [] g = "prec" -> AtnPrec

\* The token types the grammar's lexer produces.
TokenTypes(g) ==
  {t.label : t \in {tr \in UNION {{AtnOf(g).states[n].transitions[i] :
                                     i \in DOMAIN AtnOf(g).states[n].transitions} :
                                   n \in DOMAIN AtnOf(g).states} : tr.type = "ATOM"}}

RECURSIVE SeqsUpTo(_, _)
SeqsUpTo(S, n) ==
  IF n = 0 THEN {<<>>}
  ELSE LET shorter == SeqsUpTo(S, n - 1)
       IN shorter \cup {Append(s, x) : s \in shorter, x \in S}

Inputs(g) == SeqsUpTo(TokenTypes(g), MaxInputLen)

VARIABLES
  grammar,          \* which parser ATN (parserData) the debugger was built with
  input,            \* the token types of the text under debug, which start is given
  hasParser,        \* parserData was given: this.parser is defined
  symbolTable,      \* the rule indices the symbol table resolves
  breakPoints,      \* GrapsDebugger.breakPoints, in insertion order
  parseTree,        \* GrapsDebugger.parseTree
  parser,           \* the GrapsParserInterpreter with its error strategy and stream index
  stream,           \* the tokens the CommonTokenStream holds or will fetch
  call,             \* the latest start/continue/step call: in progress (active) or returned
  visit,            \* the latest iteration of that call's loop
  pending,          \* the events setImmediate has queued, oldest first
  delivered,        \* the events the listeners were called with in the latest step
  ncalls,           \* start/continue/step calls made so far
  script,           \* how far the session follows start, stepIn, stepIn, stepIn, continue
  nextBreakPointId, \* GrapsDebugger.nextBreakPointId
  loader,           \* a run of CompatibleATNDeserializer.deserialize: its blob, options, graph
  backend,          \* the language support object of the tests: its grammar contexts
  symbols           \* the symbol lists of a call frame, in one symbol table

vars == <<grammar, input, hasParser, symbolTable, breakPoints, parseTree, parser, stream,
          call, visit, pending, delivered, ncalls, script, nextBreakPointId, loader, backend, symbols>>

\* No deserialization is going on.
NoLoad == [phase |-> "idle"]

\* No grammar is loaded.
NoBackend == [phase |-> "idle"]

\* No call frame is looked at.
NoSymbols == [phase |-> "idle"]

atn == AtnOf(grammar)
Rules == DOMAIN atn.ruleToStartState
StateOf(n) == atn.states[n]


\* -------------------------------------------------- token stream (LA, consume)
\* The type of the k-th token ahead; past the end the stream keeps answering EOF.
LA(ps, k) == stream[Min(ps.index + k, Len(stream))]

\* Looking k tokens ahead makes the stream fetch them from the lexer.
Fetch(ps, k) == [ps EXCEPT !.fetched = Max(@, Min(ps.index + k, Len(stream)))]

AddChild(ps, node) ==
  IF ps.ctx = <<>> THEN ps
  ELSE [ps EXCEPT !.ctx[Len(ps.ctx)].children = Append(@, node)]

\* Parser.consume: advance unless at EOF; the token becomes a child of the
\* current context, an error node while the error strategy is recovering.
Consume(ps) ==
  LET o == LA(ps, 1)
      moved == IF o # "EOF" THEN Fetch([ps EXCEPT !.index = @ + 1], 1) ELSE Fetch(ps, 1)
  IN AddChild(moved, <<IF ps.errorRecoveryMode THEN "error" ELSE "token", o>>)

\* ------------------------------------------------------ lookahead over the ATN
\* RuleTransition, predicate and precedence transitions count as epsilon.
IsEpsilon(t) == t.type # "ATOM"
OnlyHasEpsilonTransitions(s) ==
  StateOf(s).transitions # <<>> /\ IsEpsilon(StateOf(s).transitions[1])

\* The tokens that can follow state s inside its rule (ATN.nextTokens): EPSILON
\* stands for "the end of the rule is reachable". rets are the follow states of
\* the rule calls entered during the search, called the rules being searched.
\* With pr >= 0 a precedence predicate below pr blocks the path.
RECURSIVE Look(_, _, _, _, _)
Look(s, rets, called, busy, pr) ==
  IF <<s, rets>> \in busy THEN {}
  ELSE LET st == StateOf(s)
           busy2 == busy \cup {<<s, rets>>}
       IN IF st.stateType = "RULE_STOP"
          THEN IF rets = <<>> THEN {"EPSILON"}
               ELSE Look(Head(rets), Tail(rets), called \ {st.ruleIndex}, busy2, pr)
          ELSE UNION { LET t == st.transitions[i]
                           r == StateOf(t.target).ruleIndex
                       IN CASE t.type = "ATOM" -> {t.label}
                            [] t.type = "RULE" ->
                                 IF r \in called THEN {}
                                 ELSE Look(t.target, <<t.follow>> \o rets, called \cup {r}, busy2, -1)
                            [] t.type = "PRECEDENCE" ->
                                 IF pr >= 0 /\ t.precedence < pr THEN {}
                                 ELSE Look(t.target, rets, called, busy2, pr)
                            [] OTHER -> Look(t.target, rets, called, busy2, pr)
                     : i \in DOMAIN st.transitions }

NextTokens(s) == Look(s, <<>>, {}, {}, -1)

\* ATN.getExpectedTokens: while the rule's end is reachable, add what follows
\* the invoking rule call, outwards; EOF once the outermost context is left.
RECURSIVE ExpectedWalk(_, _, _)
ExpectedWalk(following, ctxs, acc) ==
  IF "EPSILON" \in following /\ ctxs # <<>> /\ Last(ctxs).invokingState >= 0
  THEN LET rt == StateOf(Last(ctxs).invokingState).transitions[1]
           f2 == NextTokens(rt.follow)
       IN ExpectedWalk(f2, Front(ctxs), acc \cup (f2 \ {"EPSILON"}))
  ELSE IF "EPSILON" \in following THEN acc \cup {"EOF"} ELSE acc

ExpectedFrom(first, ctxs) ==
  IF "EPSILON" \notin first THEN first ELSE ExpectedWalk(first, ctxs, first \ {"EPSILON"})

ExpectedTokens(s, ctxs) == ExpectedFrom(NextTokens(s), ctxs)

\* -------------------------------------------------- default error strategy
EndErrorCondition(ps) ==
  [ps EXCEPT !.errorRecoveryMode = FALSE, !.lastErrorStates = {}, !.lastErrorIndex = -1]

\* reportError / reportUnwantedToken / reportMissingToken: the listener is told
\* unless an error was already reported and no token was matched since.
Report(r) ==
  IF r.ps.errorRecoveryMode THEN r
  ELSE [r EXCEPT !.ps.errorRecoveryMode = TRUE, !.reports = @ + 1]

Result(ps) == [ps |-> ps, reports |-> 0, exc |-> FALSE, ok |-> TRUE, alt |-> 1]

SingleTokenDeletion(ps) ==
  LET looked == Fetch(ps, 2)
  IN IF LA(ps, 2) \in ExpectedTokens(ps.state, ps.ctx)
     THEN LET rep == Report(Result(looked))
          IN [rep EXCEPT !.ps = EndErrorCondition(Consume(rep.ps))]
     ELSE [Result(looked) EXCEPT !.ok = FALSE]

SingleTokenInsertion(ps) ==
  LET next == StateOf(ps.state).transitions[1].target
  IN IF LA(ps, 1) \in ExpectedTokens(next, ps.ctx)
     THEN Report(Result(ps))
     ELSE [Result(ps) EXCEPT !.ok = FALSE]

\* recoverInline: delete one token, else conjure the missing one, else throw
\* InputMismatchException (exc).
RecoverInline(ps, ttype) ==
  LET inserted(i) == IF i.ok THEN [i EXCEPT !.ps = AddChild(i.ps, <<"error", ttype>>)]
                     ELSE [i EXCEPT !.exc = TRUE]
      deleted(d) == IF d.ok THEN [d EXCEPT !.ps = Consume(d.ps)]
                    ELSE inserted(SingleTokenInsertion(d.ps))
  IN deleted(SingleTokenDeletion(ps))

\* Parser.match
Match(ps, ttype) ==
  IF LA(ps, 1) = ttype
  THEN Result(Consume(EndErrorCondition(Fetch(ps, 1))))
  ELSE RecoverInline(Fetch(ps, 1), ttype)

\* DefaultErrorStrategy.sync, called on entry to a decision state.
Sync(ps) ==
  LET expected(nt) == LA(ps, 1) \in nt \/ "EPSILON" \in nt
      deleted(d) == IF d.ok THEN d ELSE [d EXCEPT !.exc = TRUE]
  IN IF ps.errorRecoveryMode \/ expected(NextTokens(ps.state)) THEN Result(Fetch(ps, 1))
     ELSE IF StateOf(ps.state).stateType \in {"BLOCK_START", "STAR_BLOCK_START", "STAR_LOOP_ENTRY"}
          THEN deleted(SingleTokenDeletion(ps))
          ELSE Result(Fetch(ps, 1))

\* The alternative prediction chooses at decision state s: the first one whose
\* lookahead holds the next token; failing that the first one through which the
\* rule can end; 0 when there is none (NoViableAltException).
AdaptivePredict(ps, s) ==
  LET trs == StateOf(s).transitions
      pr == Last(ps.precedenceStack)
      first(i) == Look(trs[i].target, <<>>, {}, {}, pr)
      viable == {i \in DOMAIN trs : LA(ps, 1) \in ExpectedFrom(first(i), ps.ctx)}
      finishing == {i \in DOMAIN trs : "EPSILON" \in first(i)}
      least(S) == CHOOSE i \in S : \A j \in S : i <= j
  IN IF viable # {} THEN least(viable)
     ELSE IF finishing # {} THEN least(finishing)
     ELSE 0

\* getErrorRecoverySet: what follows every rule call on the context stack.
RECURSIVE ErrorRecoverySet(_)
ErrorRecoverySet(ctxs) ==
  IF ctxs = <<>> \/ Last(ctxs).invokingState < 0 THEN {}
  ELSE (NextTokens(StateOf(Last(ctxs).invokingState).transitions[1].follow) \ {"EPSILON"})
       \cup ErrorRecoverySet(Front(ctxs))

RECURSIVE ConsumeUntil(_, _)
ConsumeUntil(ps, set) ==
  IF LA(ps, 1) = "EOF" \/ LA(ps, 1) \in set THEN Fetch(ps, 1)
  ELSE ConsumeUntil(Consume(ps), set)

\* ParserInterpreter.recover: resynchronize the token stream; when that consumed
\* nothing an error node is added to the current context.
Recover(ps) ==
  LET again == ps.lastErrorIndex = ps.index /\ ps.state \in ps.lastErrorStates
      noted(ps1) == [ps1 EXCEPT !.lastErrorIndex = ps1.index, !.lastErrorStates = @ \cup {ps1.state}]
      skipped(ps2) == ConsumeUntil(ps2, ErrorRecoverySet(ps2.ctx))
      done(ps3) == IF ps3.index = ps.index THEN AddChild(ps3, <<"error", LA(ps3, 1)>>) ELSE ps3
  IN done(skipped(noted(IF again THEN Consume(ps) ELSE ps)))


\* ------------------------------------------------- rule entry, exit, visiting
Context(r, invoking, isRoot) ==
  [ruleIndex |-> r, invokingState |-> invoking, children |-> <<>>,
   exception |-> FALSE, root |-> isRoot]

Undefined == Context(-1, INVALID_STATE_NUMBER, FALSE)

\* Parser.enterRule: the new context becomes a child of its parent.
EnterRule(ps, localctx, s) ==
  LET linked == AddChild(ps, <<"rule", localctx.ruleIndex>>)
  IN Fetch([linked EXCEPT !.state = s, !.ctx = Append(@, localctx)], 1)

\* ParserInterpreter.enterRecursionRule: remembers the parent context and the
\* invoking state; the context joins the tree only when the rule is left.
EnterRecursionRule(ps, localctx, s, precedence) ==
  Fetch([ps EXCEPT
           !.parentContextStack =
              Append(@, [depth |-> Len(ps.ctx), invokingState |-> localctx.invokingState]),
           !.state = s,
           !.precedenceStack = Append(@, precedence),
           !.ctx = Append(@, localctx)], 1)

\* Parser.pushNewRecursionContext: the current context becomes the first child
\* of a fresh context for the same rule, which takes its place.
PushNewRecursionContext(ps) ==
  LET pc == Last(ps.parentContextStack)
      previous == Last(ps.ctx)
      fresh == [Context(previous.ruleIndex, pc.invokingState, FALSE)
                  EXCEPT !.children = << <<"rule", previous.ruleIndex>> >>]
  IN [ps EXCEPT !.ctx = Append(Front(@), fresh)]

\* Parser.unrollRecursionContexts(parentctx), parentctx at the given depth.
UnrollRecursionContexts(ps, depth) ==
  LET ret == Last(ps.ctx)
      cut == [ps EXCEPT !.precedenceStack = Front(@), !.ctx = SubSeq(@, 1, depth)]
  IN AddChild(cut, <<"rule", ret.ruleIndex>>)

\* Parser.exitRule
ExitRule(ps) == [ps EXCEPT !.state = Last(ps.ctx).invokingState, !.ctx = Front(@)]

\* ParserInterpreter.visitDecisionState
VisitDecisionState(ps, p) ==
  LET predicted(s, alt) == IF alt = 0 THEN [s EXCEPT !.exc = TRUE] ELSE [s EXCEPT !.alt = alt]
      synced(s) == IF s.exc THEN s ELSE predicted(s, AdaptivePredict(s.ps, p))
  IN synced(Sync(ps))

PushesRecursionContext(p) ==
  StateOf(p).stateType = "STAR_LOOP_ENTRY" /\ atn.isPrecedenceRule[StateOf(p).ruleIndex]

\* ParserInterpreter.visitState: take one transition out of p. exc tells that a
\* RecognitionException was thrown; reports counts the calls of the error
\* listener.
VisitState(ps, p) ==
  LET st == StateOf(p)
      moved(body, t) == IF body.exc THEN body ELSE [body EXCEPT !.ps.state = t.target]
      taken(dec, t) ==
        LET callee == StateOf(t.target).ruleIndex
            newctx == Context(callee, p, FALSE)
        IN CASE t.type = "EPSILON" ->
                  IF PushesRecursionContext(p) /\ StateOf(t.target).stateType # "LOOP_END"
                  THEN [dec EXCEPT !.ps = PushNewRecursionContext(dec.ps)]
                  ELSE dec
             [] t.type = "ATOM" -> [Match(dec.ps, t.label) EXCEPT !.reports = @ + dec.reports]
             [] t.type = "RULE" ->
                  IF atn.isPrecedenceRule[callee]
                  THEN [dec EXCEPT !.ps = EnterRecursionRule(dec.ps, newctx, t.target, t.precedence)]
                  ELSE [dec EXCEPT !.ps = EnterRule(dec.ps, newctx, t.target)]
             [] t.type = "PRECEDENCE" ->
                  IF t.precedence >= Last(dec.ps.precedenceStack) THEN dec
                  ELSE [dec EXCEPT !.exc = TRUE]
      decided(dec) == IF dec.exc THEN dec
                      ELSE moved(taken(dec, st.transitions[dec.alt]), st.transitions[dec.alt])
  IN decided(IF Len(st.transitions) > 1 THEN VisitDecisionState(ps, p) ELSE Result(ps))

\* ParserInterpreter.visitRuleStopState: leave the rule and go to the follow
\* state of the rule call that entered it.
VisitRuleStopState(ps, p) ==
  LET pc == Last(ps.parentContextStack)
      followed(left) == [left EXCEPT !.state = StateOf(left.state).transitions[1].follow]
  IN followed(IF atn.isPrecedenceRule[StateOf(p).ruleIndex]
              THEN [UnrollRecursionContexts([ps EXCEPT !.parentContextStack = Front(@)], pc.depth)
                      EXCEPT !.state = pc.invokingState]
              ELSE ExitRule(ps))

\* DefaultErrorStrategy.reportError
ReportError(r) == Report(r)

\* A catch block that would leave the cursor where the failure left it.
CatchWithoutForcing(r, p) ==
  LET marked == [r.ps EXCEPT !.ctx[Len(r.ps.ctx)].exception = TRUE]
      rep == ReportError([r EXCEPT !.ps = marked, !.exc = FALSE])
  IN [rep EXCEPT !.ps = Recover(rep.ps)]

\* The catch block of continue(): force the cursor to the stop state of p's
\* rule, record the exception on the context, report it, resynchronize.
CatchRecognitionException(r, p) ==
  LET forced == [r.ps EXCEPT !.state = atn.ruleToStopState[StateOf(p).ruleIndex],
                             !.ctx[Len(r.ps.ctx)].exception = TRUE]
      rep == ReportError([r EXCEPT !.ps = forced, !.exc = FALSE])
  IN [rep EXCEPT !.ps = Recover(rep.ps)]

\* try { visitState(p) } catch (RecognitionException)
VisitCaught(ps, p) ==
  LET caught(r) == IF r.exc THEN [CatchRecognitionException(r, p) EXCEPT !.exc = TRUE] ELSE r
  IN caught(VisitState(ps, p))

\* The rule-start case: push a frame when the symbol table resolves the rule.
PushFrame(ps, p) ==
  IF StateOf(p).ruleIndex \in symbolTable
  THEN [ps EXCEPT !.callStack = Append(@, [name |-> StateOf(p).ruleIndex])]
  ELSE ps

\* _rootContext is the context created by start(); keep the copy in step with
\* the context while it is on the stack.
SyncRoot(ps) ==
  IF \E i \in DOMAIN ps.ctx : ps.ctx[i].root
  THEN [ps EXCEPT !.rootContext = ps.ctx[CHOOSE i \in DOMAIN ps.ctx : ps.ctx[i].root]]
  ELSE ps


\* ------------------------------------------- GrapsParserInterpreter.continue
\* A continue() that would run every call in StepIn mode.
AlwaysStepIn(ps, runMode) == "StepIn"

\* continue() turns StepOver into StepIn unless it starts on a rule-start state.
EffectiveRunMode(ps, runMode) ==
  IF StateOf(ps.state).stateType # "RULE_START" /\ runMode = "StepOver"
  THEN "StepIn" ELSE runMode

\* A breakpoint test on the state the interpreter is on after the visit.
BreakpointAhead(ps, p) == ps.state \in ps.breakPoints

\* if (this.breakPoints.has(p)): p is the state the iteration started on.
BreakpointHit(ps, p) == p \in ps.breakPoints

\* A StepIn stop test that would take every basic state for work to do.
StepInStopAnyBasic(ps) == StateOf(ps.state).stateType \in {"RULE_START", "BASIC"}

\* The StepIn stop test, on the state the interpreter is on after the visit.
StepInStop(ps) ==
  \/ StateOf(ps.state).stateType = "RULE_START"
  \/ StateOf(ps.state).stateType = "BASIC" /\ ~OnlyHasEpsilonTransitions(ps.state)

\* The step-stop test of the rule-stop case: stopState is the rule-stop state
\* being left, after the state the interpreter is on once it has returned.
StepStopAtRuleStop(runMode, currentRule, stopState, after) ==
  LET endOfCurrentRule == currentRule = StateOf(stopState).ruleIndex
  IN \/ endOfCurrentRule /\ runMode = "StepOut"
     \/ runMode = "StepOver" /\ currentRule = StateOf(after).ruleIndex

\* The update of the top frame's symbol lists is needed when p has exactly one
\* transition and it is a rule call or matches a token.
RecomputesNextSymbols(p) ==
  /\ Len(StateOf(p).transitions) = 1
  /\ StateOf(p).transitions[1].type \in {"RULE", "ATOM"}

Outcome(ps, n, o, res) ==
  [ps |-> ps, reports |-> n, outcome |-> o, result |-> res, raised |-> FALSE]

\* The checks after the switch: breakpoint first, then the StepIn stop.
StopChecks(ps, n, p, runMode) ==
  IF BreakpointHit(ps, p)
  THEN Outcome(ps, n, "stopOnBreakpoint", SyncRoot(ps).rootContext)
  ELSE IF runMode = "StepIn" /\ StepInStop(ps)
       THEN Outcome(ps, n, "stopOnStep", SyncRoot(ps).rootContext)
       ELSE Outcome(ps, n, "loop", Undefined)

\* The rule-stop case.
RuleStopCase(ps, p, runMode, currentRule) ==
  LET pc == Last(ps.parentContextStack)
      popped == [ps EXCEPT !.callStack = IF @ = <<>> THEN @ ELSE Front(@)]
      returned(q) == IF StepStopAtRuleStop(runMode, currentRule, p, q.state)
                     THEN Outcome(q, 0, "stopOnStep", SyncRoot(q).rootContext)
                     ELSE StopChecks(q, 0, p, runMode)
  IN IF ps.ctx = <<>> THEN Outcome(ps, 0, "TypeError", Undefined)
     ELSE IF Last(ps.ctx).invokingState = INVALID_STATE_NUMBER
     THEN IF ps.startIsPrecedenceRule
          THEN Outcome(UnrollRecursionContexts([ps EXCEPT !.parentContextStack = Front(@)], pc.depth),
                       0, "end", Last(ps.ctx))
          ELSE Outcome(ExitRule(ps), 0, "end", SyncRoot(ps).rootContext)
     ELSE returned(VisitRuleStopState(popped, p))

\* One iteration of the while (true) loop of continue().
LoopBody(ps, runMode, currentRule) ==
  LET p == ps.state
      checked(visited) == [StopChecks(visited.ps, visited.reports, p, runMode)
                             EXCEPT !.raised = visited.exc]
  IN IF RecomputesNextSymbols(p) /\ ps.callStack = <<>>
     THEN Outcome(ps, 0, "TypeError", Undefined)
     ELSE CASE StateOf(p).stateType = "RULE_STOP" -> RuleStopCase(ps, p, runMode, currentRule)
            [] StateOf(p).stateType = "RULE_START" -> checked(VisitCaught(PushFrame(ps, p), p))
            [] OTHER -> checked(VisitCaught(ps, p))

\* ----------------------------------------------------------- GrapsDebugger
\* SourceContext.ruleFromPosition(0, line): the rule that starts on the line.
RuleFromPosition(line) ==
  LET rs == {r \in Rules : atn.ruleRange[r].start = line}
  IN IF rs = {} THEN -1 ELSE CHOOSE r \in rs : TRUE

\* SourceContext.enclosingRangeForSymbol(0, line, true).start.row
EnclosingRangeStart(line) ==
  LET rs == {r \in Rules : atn.ruleRange[r].start <= line /\ line <= atn.ruleRange[r].end}
  IN IF rs = {} THEN line ELSE atn.ruleRange[CHOOSE r \in rs : TRUE].start

Validates(bp) == hasParser /\ RuleFromPosition(bp.line) # -1

\* A validation that would leave every breakpoint as it is.
ValidateNothing(bp) == bp

\* A validation that would store the line after the one the rule starts on.
ValidateOntoNextLine(bp) ==
  IF Validates(bp) THEN [bp EXCEPT !.validated = TRUE, !.line = @ + 1] ELSE bp

\* validateBreakPoint: what becomes of the breakpoint, and the state it binds.
ValidateBreakPoint(bp) ==
  IF Validates(bp)
  THEN [bp EXCEPT !.validated = TRUE, !.line = EnclosingRangeStart(bp.line)]
  ELSE bp

BoundState(bp) == atn.ruleToStartState[RuleFromPosition(bp.line)]

\* sendEvent: setImmediate queues the emit.
SendEvents(queue, kinds) == queue \o kinds

\* DebuggerErrorListener.syntaxError: emit("output", ...) calls the listeners
\* at once, whatever is still queued (overtook counts the queued events).
EmitOutputs(queue, n) ==
  [k \in 1..n |-> [kind |-> "output", sync |-> TRUE, overtook |-> Len(queue)]]

\* A start() that would enter every start rule with enterRule.
ParserStartPlain(ps, startRuleIndex) ==
  LET reset == EndErrorCondition(
                 Fetch([ps EXCEPT !.index = 0, !.ctx = <<>>, !.precedenceStack = <<0>>], 1))
      cleared == [reset EXCEPT !.callStack = <<>>]
      root == Context(startRuleIndex, INVALID_STATE_NUMBER, TRUE)
  IN SyncRoot([EnterRule(cleared, root, atn.ruleToStartState[startRuleIndex])
                 EXCEPT !.startIsPrecedenceRule = atn.isPrecedenceRule[startRuleIndex]])

\* GrapsParserInterpreter.start
ParserStart(ps, startRuleIndex) ==
  LET reset == EndErrorCondition(
                 Fetch([ps EXCEPT !.index = 0, !.ctx = <<>>, !.precedenceStack = <<0>>], 1))
      cleared == [reset EXCEPT !.callStack = <<>>]
      startState == atn.ruleToStartState[startRuleIndex]
      root == Context(startRuleIndex, INVALID_STATE_NUMBER, TRUE)
      entered == IF atn.isPrecedenceRule[startRuleIndex]
                 THEN EnterRecursionRule(cleared, root, startState, 0)
                 ELSE EnterRule(cleared, root, startState)
  IN SyncRoot([entered EXCEPT !.startIsPrecedenceRule = atn.isPrecedenceRule[startRuleIndex]])

\* lexer.inputStream = stream: the lexer restarts on the input, the token
\* stream keeps the tokens it has fetched.
Retokenize(ps) ==
  SubSeq(stream, 1, ps.fetched) \o
    (IF ps.fetched >= 1 /\ stream[ps.fetched] = "EOF" THEN <<>> ELSE input \o <<"EOF">>)

\* What is kept of a call: how it was entered (op, the start rule or -1, the
\* state, context depth and frame count it began with, its run mode) and, once
\* it has returned or thrown, how it ended (event).
NoCall ==
  [active |-> FALSE, op |-> "", arg |-> -1, runMode |-> "", currentRule |-> -1,
   from |-> INVALID_STATE_NUMBER, depth |-> 0, frames |-> 0, event |-> ""]
Enter(op, arg, runMode, ps) ==
  [active |-> TRUE, op |-> op, arg |-> arg, runMode |-> runMode,
   currentRule |-> StateOf(ps.state).ruleIndex, from |-> ps.state,
   depth |-> Len(ps.ctx), frames |-> Len(ps.callStack), event |-> ""]
Return(c, event) == [c EXCEPT !.active = FALSE, !.event = event]
Refused(op, arg, event) == [NoCall EXCEPT !.op = op, !.arg = arg, !.event = event]

\* What is kept of a loop iteration: the state p it started on, whether p was
\* bound to a breakpoint, whether the state it arrived on is, whether the error
\* strategy was recovering when it began, whether a RecognitionException was
\* caught, and how often the error listener was called.
NoVisit ==
  [p |-> INVALID_STATE_NUMBER, bound |-> FALSE, onBound |-> FALSE, recovering |-> FALSE,
   raised |-> FALSE, outputs |-> 0]

StopKinds == {"end", "stopOnBreakpoint", "stopOnStep"}

\* An iteration that would send its stop event twice.
StopEventsRepeated(outcome) ==
  IF outcome \in StopKinds THEN <<outcome, outcome>> ELSE <<>>

\* The sendEvent calls of an iteration that ends with the given outcome.
StopEvents(outcome) == IF outcome \in StopKinds THEN <<outcome>> ELSE <<>>

\* The session follows the script start, stepIn, stepIn, stepIn, continue as
\* long as its calls are these, in this order: script counts the calls made.
Script == <<"start", "stepIn", "stepIn", "stepIn", "continue">>
Follow(op) ==
  IF script = ncalls /\ script < Len(Script) /\ Script[script + 1] = op
  THEN script + 1 ELSE -1

InitialParser ==
  [state |-> INVALID_STATE_NUMBER, ctx |-> <<>>, rootContext |-> Undefined, index |-> 0,
   fetched |-> 0, errorRecoveryMode |-> FALSE, lastErrorIndex |-> -1, lastErrorStates |-> {},
   precedenceStack |-> <<0>>, parentContextStack |-> <<>>, startIsPrecedenceRule |-> FALSE,
   callStack |-> <<>>, breakPoints |-> {}]

\* The symbol table resolves every rule, or every rule but the last.
SymbolTables(g) ==
  LET rules == DOMAIN AtnOf(g).ruleToStartState
  IN {rules, rules \ {CHOOSE r \in rules : \A q \in rules : q <= r}}

\* The lines of the grammar source.
Lines == 1..atn.ruleRange[CHOOSE r \in Rules : \A q \in Rules : q <= r].end

Init ==
  /\ \/ hasParser = TRUE /\ grammar \in Grammars /\ symbolTable \in SymbolTables(grammar)
     \/ hasParser = FALSE /\ grammar = "seq" /\ symbolTable = {}
  /\ input \in Inputs(grammar)
  /\ breakPoints = <<>>
  /\ nextBreakPointId = 0
  /\ parseTree = Undefined
  /\ parser = InitialParser
  /\ stream = <<"EOF">>
  /\ call = NoCall
  /\ visit = NoVisit
  /\ pending = <<>>
  /\ delivered = <<>>
  /\ ncalls = 0
  /\ script = 0
  /\ loader = NoLoad
  /\ backend = NoBackend
  /\ symbols = NoSymbols

\* The host makes each start/continue/step call from a turn of its own: the
\* callbacks queued before it have run.
CanCall == ~call.active /\ pending = <<>> /\ ncalls < MaxCalls

\* GrapsDebugger.start(startRuleIndex, input)
Start(startRuleIndex) ==
  LET revalidated == SelectSeq(breakPoints, Validates)
      events == [k \in 1..Len(revalidated) |-> "breakpointValidated"]
      rebound == [parser EXCEPT !.breakPoints = {BoundState(breakPoints[i]) : i \in
                                    {j \in DOMAIN breakPoints : Validates(breakPoints[j])}}]
      started == ParserStart(rebound, startRuleIndex)
  IN /\ CanCall
     /\ ncalls' = ncalls + 1
     /\ script' = Follow("start")
     /\ stream' = Retokenize(parser)
     /\ delivered' = <<>>
     /\ visit' = NoVisit
     /\ IF ~hasParser
        THEN /\ pending' = SendEvents(pending, <<"end">>)
             /\ call' = Refused("start", startRuleIndex, "end")
             /\ UNCHANGED <<breakPoints, parseTree, parser>>
        ELSE /\ breakPoints' = [i \in DOMAIN breakPoints |-> ValidateBreakPoint(breakPoints[i])]
             /\ pending' = SendEvents(pending, events)
             /\ parseTree' = Undefined
             /\ parser' = started
             /\ call' = Enter("start", startRuleIndex, EffectiveRunMode(started, "Normal"), started)
     /\ UNCHANGED <<loader, backend, symbols, grammar, input, hasParser, symbolTable, nextBreakPointId>>

\* GrapsDebugger.continue / stepIn / stepOver / stepOut: the entry of
\* GrapsParserInterpreter.continue(runMode). Without a parser nothing happens;
\* without a current state (no start yet, or the parse has ended) reading
\* this.atnState.ruleIndex throws a TypeError.
Resume(op, runMode) ==
  /\ CanCall
  /\ ncalls' = ncalls + 1
  /\ script' = Follow(op)
  /\ delivered' = <<>>
  /\ visit' = NoVisit
  /\ call' = IF ~hasParser THEN Refused(op, -1, "none")
             ELSE IF parser.state \notin DOMAIN atn.states THEN Refused(op, -1, "TypeError")
             ELSE Enter(op, -1, EffectiveRunMode(parser, runMode), parser)
  /\ UNCHANGED <<loader, backend, symbols, grammar, input, hasParser, symbolTable, breakPoints, parseTree, parser, stream,
                 pending, nextBreakPointId>>

Continue == Resume("continue", "Normal")
StepIn == Resume("stepIn", "StepIn")
StepOut == Resume("stepOut", "StepOut")
StepOver == Resume("stepOver", "StepOver")

\* One iteration of the loop of the call in progress; the call returns when the
\* iteration reaches a stop condition (or throws).
LoopStep ==
  /\ call.active
  /\ \E r \in {LoopBody(parser, call.runMode, call.currentRule)} :
     /\ parser' = SyncRoot(r.ps)
     /\ visit' = [p |-> parser.state,
                  bound |-> parser.state \in parser.breakPoints,
                  onBound |-> r.ps.state \in r.ps.breakPoints,
                  recovering |-> parser.errorRecoveryMode,
                  raised |-> r.raised,
                  outputs |-> r.reports]
     /\ delivered' = EmitOutputs(pending, r.reports)
     /\ pending' = SendEvents(pending, StopEvents(r.outcome))
     /\ IF r.outcome = "loop"
        THEN UNCHANGED <<call, parseTree>>
        ELSE /\ call' = Return(call, r.outcome)
             /\ parseTree' = IF r.outcome = "TypeError" THEN parseTree ELSE r.result
     /\ UNCHANGED <<loader, backend, symbols, grammar, input, hasParser, symbolTable, breakPoints, stream, ncalls, script,
                    nextBreakPointId>>

\* A later turn of the event loop runs the queued callbacks, oldest first.
Deliver ==
  /\ ~call.active
  /\ pending # <<>>
  /\ delivered' = [k \in 1..Len(pending) |->
                     [kind |-> pending[k], sync |-> FALSE, overtook |-> 0]]
  /\ pending' = <<>>
  /\ UNCHANGED <<loader, backend, symbols, grammar, input, hasParser, symbolTable, breakPoints, parseTree, parser, stream,
                 call, visit, ncalls, script, nextBreakPointId>>

\* GrapsDebugger.addBreakPoint(path, line)
AddBreakPoint(line) ==
  LET bp == [id |-> nextBreakPointId, validated |-> FALSE, line |-> line]
      events == IF Validates(bp) THEN <<"breakpointValidated">> ELSE <<>>
  IN /\ ~call.active
     /\ nextBreakPointId < MaxBreakPoints
     /\ nextBreakPointId' = nextBreakPointId + 1
     /\ breakPoints' = Append(breakPoints, ValidateBreakPoint(bp))
     /\ parser' = IF Validates(bp) THEN [parser EXCEPT !.breakPoints = @ \cup {BoundState(bp)}]
                  ELSE parser
     /\ pending' = SendEvents(pending, events)
     /\ delivered' = <<>>
     /\ UNCHANGED <<loader, backend, symbols, grammar, input, hasParser, symbolTable, parseTree, stream, call, visit,
                    ncalls, script>>

\* A clearBreakPoints that would forget the interpreter's bound states.
ClearDebuggerOnly ==
  /\ ~call.active
  /\ breakPoints' = <<>>
  /\ delivered' = <<>>
  /\ UNCHANGED <<loader, backend, symbols, grammar, input, hasParser, symbolTable, parseTree, parser, stream, call, visit,
                 pending, ncalls, script, nextBreakPointId>>

\* GrapsDebugger.clearBreakPoints
ClearBreakPoints ==
  /\ ~call.active
  /\ breakPoints' = <<>>
  /\ parser' = IF hasParser THEN [parser EXCEPT !.breakPoints = {}] ELSE parser
  /\ delivered' = <<>>
  /\ UNCHANGED <<loader, backend, symbols, grammar, input, hasParser, symbolTable, parseTree, stream, call, visit,
                 pending, ncalls, script, nextBreakPointId>>

Next ==
  \/ \E r \in Rules : Start(r)
  \/ Continue
  \/ StepIn
  \/ StepOut
  \/ StepOver
  \/ LoopStep
  \/ Deliver
  \/ \E line \in Lines : AddBreakPoint(line)
  \/ ClearBreakPoints

Spec == Init /\ [][Next]_vars

\* ------------------------------------------------------------------ claims
Returned == ~call.active /\ call.event \in StopKinds
Visited == visit.p # INVALID_STATE_NUMBER
TokenNode(t) == <<"token", t>>
StopEventsIn(q) == Cardinality({i \in DOMAIN q : q[i] \in StopKinds})

\* A state that represents work to do: a rule-start state, or a basic state
\* with a transition that matches a token.
WorkState(s) ==
  /\ s \in DOMAIN atn.states
  /\ \/ StateOf(s).stateType = "RULE_START"
     \/ /\ StateOf(s).stateType = "BASIC"
        /\ \E i \in DOMAIN StateOf(s).transitions : StateOf(s).transitions[i].type = "ATOM"

\* The session of the scenario: grammar a: B C; input [B, C], no breakpoint
\* ever added, the calls made so far follow the script and have returned.
Scenario ==
  /\ grammar = "seq" /\ hasParser /\ symbolTable = Rules
  /\ input = <<"B", "C">>
  /\ nextBreakPointId = 0
  /\ script >= 1
  /\ ~call.active

\* C1 (as the specification states it): after start, the three stepIn calls
\* end with a step-stop at the rule-start state of a, at the state after B and
\* at the state after C, and the continue that follows reports completion with
\* a parse tree of two children.
C1_ScenarioAsStated ==
  Scenario =>
    /\ script = 2 => call.event = "stopOnStep" /\ parser.state = atn.ruleToStartState[0]
    /\ script = 3 => call.event = "stopOnStep" /\ parser.state = 3
    /\ script = 4 => call.event = "stopOnStep" /\ parser.state = 4
    /\ script = 5 => call.event = "end" /\ Len(parseTree.children) = 2

\* C1 (amended): with no breakpoint, start itself runs to completion: it
\* reports "end" with the parse tree (a B C), and no later step call of the
\* scenario stops anywhere: each fails on the missing current state and leaves
\* the tree as it is.
C1_StartRunsToCompletion ==
  Scenario =>
    /\ parseTree.children = <<TokenNode("B"), TokenNode("C")>>
    /\ parser.state = INVALID_STATE_NUMBER
    /\ script = 1 => call.event = "end"
    /\ script > 1 => call.event = "TypeError"

C1_Witness == Scenario /\ script = 2 /\ call.op = "stepIn"

\* C2: start with a parser present rebinds the interpreter's breakpoint states
\* to the validated breakpoints, validates every registered breakpoint that
\* can be validated (one breakpointValidated each), resets the parse tree,
\* enters the start rule (recursion entry with precedence 0 for a precedence
\* rule, plain entry otherwise) and runs in Normal mode until one stop: never a
\* step-stop.
C2_Start ==
  (call.op = "start" /\ hasParser) =>
    /\ call.runMode = "Normal"
    /\ call.event # "stopOnStep"
    /\ call.active => StopEventsIn(pending) = 0
    /\ Returned => call.event \in {"stopOnBreakpoint", "end"}
    /\ (call.active /\ ~Visited) =>
         /\ parser.breakPoints =
              {BoundState(breakPoints[i]) : i \in {j \in DOMAIN breakPoints : breakPoints[j].validated}}
         /\ \A i \in DOMAIN breakPoints : breakPoints[i].validated <=> Validates(breakPoints[i])
         /\ pending = [i \in 1..Cardinality({j \in DOMAIN breakPoints : breakPoints[j].validated})
                         |-> "breakpointValidated"]
         /\ parseTree = Undefined
         /\ parser.state = atn.ruleToStartState[call.arg]
         /\ Len(parser.ctx) = 1
         /\ parser.ctx[1].ruleIndex = call.arg
         /\ parser.ctx[1].invokingState = INVALID_STATE_NUMBER
         /\ IF atn.isPrecedenceRule[call.arg]
            THEN /\ parser.precedenceStack = <<0, 0>>
                 /\ parser.parentContextStack # <<>>
                 /\ Last(parser.parentContextStack).invokingState = INVALID_STATE_NUMBER
            ELSE parser.precedenceStack = <<0>>

C2_Witness ==
  /\ grammar = "prec" /\ ncalls = 2
  /\ call.op = "start" /\ ~call.active /\ call.event = "stopOnBreakpoint"
  /\ Len(breakPoints) = 1

\* C3 (as the specification states it): stepOver begun off a rule-start state
\* runs as stepIn; begun on a rule-start state it runs as Normal and ends with
\* a step-stop exactly when the rule-stop state of that rule is left at the
\* depth of entry, not when a call made from within the rule returns.
C3_StepOver ==
  (call.op = "stepOver" /\ symbolTable = Rules /\ call.from \in DOMAIN atn.states) =>
    /\ StateOf(call.from).stateType # "RULE_START" => call.runMode = "StepIn"
    /\ StateOf(call.from).stateType = "RULE_START" =>
         /\ call.runMode = "StepOver"
         /\ call.event = "stopOnStep" =>
              /\ visit.p = atn.ruleToStopState[call.currentRule]
              /\ Len(parser.ctx) = call.depth - 1
         /\ (call.active /\ Visited) =>
              ~(/\ visit.p = atn.ruleToStopState[call.currentRule]
                /\ Len(parser.ctx) = call.depth - 1)

\* C4 (as the specification states it): stepOut ends with a step-stop exactly
\* when the frame that was on top when it was called is popped.
C4_StepOut ==
  (call.runMode = "StepOut" /\ symbolTable = Rules) =>
    /\ call.event = "stopOnStep" => Len(parser.callStack) = call.frames - 1
    /\ (call.active /\ Visited) => Len(parser.callStack) >= call.frames

\* C5 (as the specification states it): in StepIn mode the call returns with a
\* step-stop right after the first visit that leaves the interpreter on a
\* work state, and never reports a step-stop on another kind of state.
C5_StepInAsStated ==
  call.runMode = "StepIn" =>
    /\ (call.active /\ Visited) => ~WorkState(parser.state)
    /\ call.event = "stopOnStep" => WorkState(parser.state)
    /\ (Returned /\ WorkState(parser.state)) => call.event = "stopOnStep"

\* C5 (amended): in StepIn mode the call returns right after the first visit
\* that leaves the interpreter on a work state, with a step-stop unless the
\* state just visited is bound to a breakpoint (then with a breakpoint-hit),
\* and never reports a step-stop on another kind of state.
C5_StepIn ==
  call.runMode = "StepIn" =>
    /\ (call.active /\ Visited) => ~WorkState(parser.state)
    /\ call.event = "stopOnStep" => WorkState(parser.state) /\ ~visit.bound
    /\ (Returned /\ WorkState(parser.state)) =>
         \/ call.event = "stopOnStep"
         \/ call.event = "stopOnBreakpoint" /\ visit.bound

C5_Witness ==
  /\ call.runMode = "StepIn" /\ ~call.active
  /\ call.event = "stopOnBreakpoint" /\ WorkState(parser.state)

\* C6 (as the specification states it): in every run mode the call stops with
\* a breakpoint-hit exactly when the state the interpreter is on after a visit
\* is bound to a validated breakpoint, before any step-stop.
C6_HitOnCurrentState ==
  /\ call.event = "stopOnBreakpoint" => visit.onBound
  /\ (Visited /\ visit.onBound) => ~call.active /\ call.event = "stopOnBreakpoint"

\* C6 (amended): in every run mode the call stops with a breakpoint-hit
\* exactly when the state it has just visited (the one the iteration started
\* on) is bound to a validated breakpoint, before any step-stop.
C6_HitOnVisitedState ==
  /\ call.event = "stopOnBreakpoint" => visit.bound
  /\ (Visited /\ visit.bound) => ~call.active /\ call.event = "stopOnBreakpoint"

C6_Witness ==
  /\ ~call.active /\ call.op = "stepIn" /\ call.event = "stopOnStep" /\ visit.onBound

\* C7: a start/continue/step call sends at most one of end, stopOnBreakpoint,
\* stopOnStep: none while it runs, and the one it returns with.
C7_OneStopEvent ==
  /\ StopEventsIn(pending) <= 1
  /\ StopEventsIn([i \in DOMAIN delivered |-> delivered[i].kind]) <= 1
  /\ call.active => StopEventsIn(pending) = 0
  /\ \A i \in DOMAIN pending : pending[i] \in StopKinds => pending[i] = call.event

C7_Witness ==
  /\ ~call.active /\ call.op = "stepOver" /\ call.runMode = "StepOver"
  /\ pending = <<"stopOnStep">>

\* C8 (as the specification states it): no listener is called inside the
\* stepping loop: every event is delivered on a later turn.
C8_NoSynchronousDelivery ==
  \A i \in DOMAIN delivered : ~delivered[i].sync

\* C9 (as the specification states it): listeners get the events in the order
\* of their emission: none is delivered while an earlier one is still queued.
C9_DeliveryOrder ==
  \A i \in DOMAIN delivered : delivered[i].overtook = 0

\* C10 (as the specification states it): a match failure caught by continue
\* forces the cursor to the rule's stop state, is recorded on the context,
\* produces exactly one output event, resynchronizes the stream and lets the
\* call go on.
C10_OneOutputPerFailure ==
  visit.raised =>
    /\ parser.state = atn.ruleToStopState[StateOf(visit.p).ruleIndex]
    /\ Last(parser.ctx).exception
    /\ visit.outputs = 1
    /\ LA(parser, 1) \in ErrorRecoverySet(parser.ctx) \cup {"EOF"}
    /\ call.active \/ call.event \in StopKinds

\* C10 (amended): as above, but the failure produces one output event only if
\* the error strategy was not recovering from an earlier error (a token was
\* matched since), and none otherwise.
C10_MatchFailure ==
  visit.raised =>
    /\ parser.state = atn.ruleToStopState[StateOf(visit.p).ruleIndex]
    /\ Last(parser.ctx).exception
    /\ visit.outputs = IF visit.recovering THEN 0 ELSE 1
    /\ LA(parser, 1) \in ErrorRecoverySet(parser.ctx) \cup {"EOF"}
    /\ call.active \/ call.event \in StopKinds

C10_Witness == visit.raised /\ visit.recovering /\ visit.outputs = 0

\* C11: every start / continue / step call that has returned has reached one of
\* completion, breakpoint-hit or step-stop.
C11_ReturnsAtStopCondition ==
  (~call.active /\ call.op # "") => call.event \in StopKinds

\* The rule invocations entered and not yet left, outermost first: the contexts
\* on the stack, but for the one whose rule-start state is still to be visited.
OpenInvocations(ps) ==
  IF ps.state \in DOMAIN atn.states /\ StateOf(ps.state).stateType = "RULE_START"
  THEN Front(ps.ctx) ELSE ps.ctx

\* C12: when a call has returned (the symbol table resolving every rule) the
\* call stack holds one frame per rule invocation entered and not yet left,
\* innermost last; after completion that is no frame at all.
C12_FramesMirrorNesting ==
  (Returned /\ symbolTable = Rules) =>
    parser.callStack = [i \in DOMAIN OpenInvocations(parser) |-> [name |-> parser.ctx[i].ruleIndex]]

IsFirstLine(line) == \E r \in Rules : atn.ruleRange[r].start = line
RuleOnLine(line) == CHOOSE r \in Rules : atn.ruleRange[r].start = line
Validations(q) == Cardinality({i \in DOMAIN q : q[i] = "breakpointValidated"})

C14_NeverRevalidated ==
  [][/\ \A i \in DOMAIN breakPoints :
          (breakPoints[i].validated /\ i \in DOMAIN breakPoints') => breakPoints'[i] = breakPoints[i]
     /\ Validations(pending') > Validations(pending) => nextBreakPointId' # nextBreakPointId]_vars

\* C14 (amended): a validated breakpoint stays validated on the same line as
\* long as it is registered; continue and the step calls run no validation and
\* emit no breakpoint-validated; start with a parser validates every registered
\* breakpoint again and emits breakpoint-validated once more for each validated
\* one.
C14_Lifecycle ==
  [][/\ \A i \in DOMAIN breakPoints :
          (breakPoints[i].validated /\ i \in DOMAIN breakPoints') => breakPoints'[i] = breakPoints[i]
     /\ (ncalls' # ncalls /\ call'.op # "start") =>
          /\ breakPoints' = breakPoints
          /\ Validations(pending') = Validations(pending)
     /\ (ncalls' # ncalls /\ call'.op = "start" /\ hasParser) =>
          /\ pending' = pending \o [k \in 1..Cardinality({i \in DOMAIN breakPoints : breakPoints[i].validated})
                                       |-> "breakpointValidated"]
     /\ (LoopStep \/ Deliver \/ ClearBreakPoints) => Validations(pending') <= Validations(pending)]_vars

C14_Witness ==
  /\ call.op = "start" /\ call.active /\ ~Visited
  /\ Len(breakPoints) = 1 /\ breakPoints[1].validated
  /\ pending = <<"breakpointValidated">> /\ ncalls = 2

\* C15: clearBreakPoints leaves the debugger without breakpoints and the
\* interpreter without bound states; while the debugger holds no breakpoint
\* the interpreter has no bound state and no iteration of a call ends with a
\* breakpoint-hit.
C15_ClearBreakPoints ==
  [][/\ ClearBreakPoints => (breakPoints' = <<>> /\ parser'.breakPoints = {})
     /\ breakPoints' = <<>> => parser'.breakPoints = {}
     /\ (LoopStep /\ breakPoints = <<>>) => call'.event # "stopOnBreakpoint"]_vars

C15_Witness ==
  /\ breakPoints = <<>> /\ nextBreakPointId = 1
  /\ call.op = "start" /\ Returned /\ call.event = "end" /\ ncalls = 2
  /\ parseTree.ruleIndex \in {r \in Rules : atn.ruleRange[r].start \in Lines}
  /\ visit.p = atn.ruleToStopState[parseTree.ruleIndex]

\* ------------------------------------ CompatibleATNDeserializer: the blobs
\* A serialized ATN after the header, as the tables deserialize reads in turn.
\* State numbers count from 0; state n is entry n + 1 of a table.
MaxTokenType == 3

BState(stype, ruleIndex, arg) == [stype |-> stype, ruleIndex |-> ruleIndex, arg |-> arg]
BEdge(src, trg, ttype, arg1, arg2, arg3) ==
  [src |-> src, trg |-> trg, ttype |-> ttype, arg1 |-> arg1, arg2 |-> arg2, arg3 |-> arg3]
BEps(src, trg) == BEdge(src, trg, "EPSILON", 0, 0, 0)
BAtom(src, trg, label) == BEdge(src, trg, "ATOM", label, 0, 0)
\* A rule call from src into the rule that starts on state start, back to follow.
BRule(src, start, ruleIndex, precedence, follow) ==
  BEdge(src, follow, "RULE", start, ruleIndex, precedence)
BRuleEntry(start, tokenType) == [start |-> start, tokenType |-> tokenType]

\* a: B C;
BlobSeq ==
  [grammarType |-> "PARSER", maxTokenType |-> MaxTokenType,
   states |-> <<BState("RULE_START", 0, 0), BState("RULE_STOP", 0, 0), BState("BASIC", 0, 0),
                BState("BASIC", 0, 0), BState("BASIC", 0, 0)>>,
   nonGreedy |-> <<>>, precedence |-> <<>>,
   rules |-> <<BRuleEntry(0, 0)>>, modes |-> <<>>,
   edges |-> <<BEps(0, 2), BAtom(2, 3, 1), BAtom(3, 4, 2), BEps(4, 1)>>,
   decisions |-> <<>>]

\* a: (b | b) C;  b: B;  both calls of b come back to state 12.
BlobShared ==
  [grammarType |-> "PARSER", maxTokenType |-> MaxTokenType,
   states |-> <<BState("RULE_START", 0, 0), BState("RULE_STOP", 0, 0),
                BState("RULE_START", 1, 0), BState("RULE_STOP", 1, 0),
                BState("BLOCK_START", 0, 7), BState("BASIC", 0, 0), BState("BASIC", 0, 0),
                BState("BLOCK_END", 0, 0), BState("BASIC", 0, 0), BState("BASIC", 0, 0),
                BState("BASIC", 1, 0), BState("BASIC", 1, 0), BState("BASIC", 0, 0)>>,
   nonGreedy |-> <<>>, precedence |-> <<>>,
   rules |-> <<BRuleEntry(0, 0), BRuleEntry(2, 0)>>, modes |-> <<>>,
   edges |-> <<BEps(0, 4), BEps(4, 5), BEps(4, 6), BRule(5, 2, 1, 0, 12), BRule(6, 2, 1, 0, 12),
               BEps(12, 7), BEps(7, 8), BAtom(8, 9, 2), BEps(9, 1),
               BEps(2, 10), BAtom(10, 11, 1), BEps(11, 3)>>,
   decisions |-> <<4>>]

\* s: e e;  e: e D e | B;  e is a precedence rule, called at precedence 0 from s
\* (twice) and at precedence 3 from itself.
BlobPrec ==
  [grammarType |-> "PARSER", maxTokenType |-> MaxTokenType,
   states |-> <<BState("RULE_START", 0, 0), BState("RULE_STOP", 0, 0),
                BState("RULE_START", 1, 0), BState("RULE_STOP", 1, 0),
                BState("BASIC", 0, 0), BState("BASIC", 0, 0),
                BState("BASIC", 1, 0), BState("BASIC", 1, 0),
                BState("STAR_LOOP_ENTRY", 1, 0), BState("STAR_BLOCK_START", 1, 12),
                BState("BASIC", 1, 0), BState("BASIC", 1, 0), BState("BLOCK_END", 1, 0),
                BState("LOOP_END", 1, 16), BState("BASIC", 1, 0), BState("BASIC", 1, 0),
                BState("STAR_LOOP_BACK", 1, 0), BState("BASIC", 0, 0)>>,
   nonGreedy |-> <<>>, precedence |-> <<2>>,
   rules |-> <<BRuleEntry(0, 0), BRuleEntry(2, 0)>>, modes |-> <<>>,
   edges |-> <<BEps(0, 4), BRule(4, 2, 1, 0, 5), BRule(5, 2, 1, 0, 17), BEps(17, 1),
               BEps(2, 6), BAtom(6, 7, 1), BEps(7, 8), BEps(8, 9), BEps(8, 13), BEps(9, 10),
               BEdge(10, 11, "PRECEDENCE", 2, 0, 0), BAtom(11, 14, 3), BRule(14, 2, 1, 3, 15),
               BEps(15, 12), BEps(12, 16), BEps(16, 8), BEps(13, 3)>>,
   decisions |-> <<9, 8>>]

\* a: B | C | D b;  b: B;  two alternatives are single tokens, b is one token.
BlobAlts ==
  [grammarType |-> "PARSER", maxTokenType |-> MaxTokenType,
   states |-> <<BState("RULE_START", 0, 0), BState("RULE_STOP", 0, 0),
                BState("RULE_START", 1, 0), BState("RULE_STOP", 1, 0),
                BState("BLOCK_START", 0, 9), BState("BASIC", 0, 0), BState("BASIC", 0, 0),
                BState("BASIC", 0, 0), BState("BASIC", 0, 0), BState("BLOCK_END", 0, 0),
                BState("BASIC", 0, 0), BState("BASIC", 1, 0), BState("BASIC", 1, 0),
                BState("INVALID_TYPE", 0, 0)>>,
   nonGreedy |-> <<>>, precedence |-> <<>>,
   rules |-> <<BRuleEntry(0, 0), BRuleEntry(2, 0)>>, modes |-> <<>>,
   edges |-> <<BEps(0, 4), BEps(4, 5), BEps(4, 6), BEps(4, 7), BAtom(5, 9, 1), BAtom(6, 9, 2),
               BAtom(7, 8, 3), BRule(8, 2, 1, 0, 10), BEps(10, 9), BEps(9, 1),
               BEps(2, 11), BAtom(11, 12, 1), BEps(12, 3)>>,
   decisions |-> <<4>>]

\* lexer grammar B: 'b'; C: 'c' | 'd';  one mode.
BlobLexer ==
  [grammarType |-> "LEXER", maxTokenType |-> 2,
   states |-> <<BState("TOKEN_START", -1, 0), BState("RULE_START", 0, 0), BState("RULE_STOP", 0, 0),
                BState("RULE_START", 1, 0), BState("RULE_STOP", 1, 0),
                BState("BASIC", 0, 0), BState("BASIC", 0, 0),
                BState("BLOCK_START", 1, 10), BState("BASIC", 1, 0), BState("BASIC", 1, 0),
                BState("BLOCK_END", 1, 0)>>,
   nonGreedy |-> <<>>, precedence |-> <<>>,
   rules |-> <<BRuleEntry(1, 1), BRuleEntry(3, 2)>>, modes |-> <<0>>,
   edges |-> <<BEps(0, 1), BEps(0, 3), BEps(1, 5), BAtom(5, 6, 1), BEps(6, 2),
               BEps(3, 7), BEps(7, 8), BEps(7, 9), BAtom(8, 10, 2), BAtom(9, 10, 3), BEps(10, 4)>>,
   decisions |-> <<0, 7>>]

\* a: b C;  b: c;  c: B;
BlobChain ==
  [grammarType |-> "PARSER", maxTokenType |-> MaxTokenType,
   states |-> <<BState("RULE_START", 0, 0), BState("RULE_STOP", 0, 0),
                BState("RULE_START", 1, 0), BState("RULE_STOP", 1, 0),
                BState("RULE_START", 2, 0), BState("RULE_STOP", 2, 0),
                BState("BASIC", 0, 0), BState("BASIC", 0, 0), BState("BASIC", 0, 0),
                BState("BASIC", 1, 0), BState("BASIC", 1, 0),
                BState("BASIC", 2, 0), BState("BASIC", 2, 0)>>,
   nonGreedy |-> <<>>, precedence |-> <<>>,
   rules |-> <<BRuleEntry(0, 0), BRuleEntry(2, 0), BRuleEntry(4, 0)>>, modes |-> <<>>,
   edges |-> <<BEps(0, 6), BRule(6, 2, 1, 0, 7), BAtom(7, 8, 3), BEps(8, 1),
               BEps(2, 9), BRule(9, 4, 2, 0, 10), BEps(10, 3),
               BEps(4, 11), BAtom(11, 12, 2), BEps(12, 5)>>,
   decisions |-> <<>>]

\* lexer:  A: (F | 'b');  fragment F: 'a';  the first alternative starts on a
\* basic state that only leads on to the call of F.
BlobLexAlts ==
  [grammarType |-> "LEXER", maxTokenType |-> 2,
   states |-> <<BState("TOKEN_START", -1, 0), BState("RULE_START", 0, 0), BState("RULE_STOP", 0, 0),
                BState("RULE_START", 1, 0), BState("RULE_STOP", 1, 0),
                BState("BLOCK_START", 0, 10), BState("BASIC", 0, 0), BState("BASIC", 0, 0),
                BState("BASIC", 0, 0), BState("BASIC", 0, 0), BState("BLOCK_END", 0, 0),
                BState("BASIC", 1, 0), BState("BASIC", 1, 0)>>,
   nonGreedy |-> <<>>, precedence |-> <<>>,
   rules |-> <<BRuleEntry(1, 1), BRuleEntry(3, 0)>>, modes |-> <<0>>,
   edges |-> <<BEps(0, 1), BEps(1, 5), BEps(5, 6), BEps(5, 9), BEps(6, 7),
               BRule(7, 3, 1, 0, 8), BEps(8, 10), BAtom(9, 10, 2), BEps(10, 2),
               BEps(3, 11), BAtom(11, 12, 1), BEps(12, 4)>>,
   decisions |-> <<0, 5>>]

\* lexer:  A: ('b' | F);  fragment F: 'a';  the block start itself carries the
\* call of F as its second transition.
BlobLexDirect ==
  [grammarType |-> "LEXER", maxTokenType |-> 2,
   states |-> <<BState("TOKEN_START", -1, 0), BState("RULE_START", 0, 0), BState("RULE_STOP", 0, 0),
                BState("RULE_START", 1, 0), BState("RULE_STOP", 1, 0),
                BState("BLOCK_START", 0, 8), BState("BASIC", 0, 0), BState("BASIC", 0, 0),
                BState("BLOCK_END", 0, 0), BState("BASIC", 1, 0), BState("BASIC", 1, 0)>>,
   nonGreedy |-> <<>>, precedence |-> <<>>,
   rules |-> <<BRuleEntry(1, 1), BRuleEntry(3, 0)>>, modes |-> <<0>>,
   edges |-> <<BEps(0, 1), BEps(1, 5), BEps(5, 6), BRule(5, 3, 1, 0, 7),
               BAtom(6, 8, 2), BEps(7, 8), BEps(8, 2),
               BEps(3, 9), BAtom(9, 10, 1), BEps(10, 4)>>,
   decisions |-> <<0, 5>>]

\* a: (B | C);  with the block start naming no state as its end state.
BlobNoEnd ==
  [grammarType |-> "PARSER", maxTokenType |-> MaxTokenType,
   states |-> <<BState("RULE_START", 0, 0), BState("RULE_STOP", 0, 0),
                BState("BLOCK_START", 0, 65535), BState("BASIC", 0, 0), BState("BASIC", 0, 0),
                BState("BLOCK_END", 0, 0)>>,
   nonGreedy |-> <<>>, precedence |-> <<>>,
   rules |-> <<BRuleEntry(0, 0)>>, modes |-> <<>>,
   edges |-> <<BEps(0, 2), BEps(2, 3), BEps(2, 4), BAtom(3, 5, 1), BAtom(4, 5, 2), BEps(5, 1)>>,
   decisions |-> <<2>>]

\* a: (B | C) (B | C);  with both block starts naming the same end state.
BlobClaimed ==
  [grammarType |-> "PARSER", maxTokenType |-> MaxTokenType,
   states |-> <<BState("RULE_START", 0, 0), BState("RULE_STOP", 0, 0),
                BState("BLOCK_START", 0, 5), BState("BASIC", 0, 0), BState("BASIC", 0, 0),
                BState("BLOCK_END", 0, 0),
                BState("BLOCK_START", 0, 5), BState("BASIC", 0, 0), BState("BASIC", 0, 0),
                BState("BLOCK_END", 0, 0)>>,
   nonGreedy |-> <<>>, precedence |-> <<>>,
   rules |-> <<BRuleEntry(0, 0)>>, modes |-> <<>>,
   edges |-> <<BEps(0, 2), BEps(2, 3), BEps(2, 4), BAtom(3, 5, 1), BAtom(4, 5, 2), BEps(5, 6),
               BEps(6, 7), BEps(6, 8), BAtom(7, 9, 1), BAtom(8, 9, 2), BEps(9, 1)>>,
   decisions |-> <<2, 6>>]

\* a: (B (C | D) | D);  the second alternative of the first block ends on the
\* block end of the second block.
BlobTwoEnds ==
  [grammarType |-> "PARSER", maxTokenType |-> MaxTokenType,
   states |-> <<BState("RULE_START", 0, 0), BState("RULE_STOP", 0, 0),
                BState("BLOCK_START", 0, 5), BState("BASIC", 0, 0), BState("BASIC", 0, 0),
                BState("BLOCK_END", 0, 0),
                BState("BLOCK_START", 0, 9), BState("BASIC", 0, 0), BState("BASIC", 0, 0),
                BState("BLOCK_END", 0, 0)>>,
   nonGreedy |-> <<>>, precedence |-> <<>>,
   rules |-> <<BRuleEntry(0, 0)>>, modes |-> <<>>,
   edges |-> <<BEps(0, 2), BEps(2, 3), BEps(2, 4), BAtom(3, 5, 1), BAtom(4, 9, 3), BEps(5, 6),
               BEps(6, 7), BEps(6, 8), BAtom(7, 9, 2), BAtom(8, 9, 3), BEps(9, 1)>>,
   decisions |-> <<2, 6>>]

\* a: (b ... | C);  b: B;  the state after the call of b has one transition,
\* an epsilon transition onto itself.
BlobCycle ==
  [grammarType |-> "PARSER", maxTokenType |-> MaxTokenType,
   states |-> <<BState("RULE_START", 0, 0), BState("RULE_STOP", 0, 0),
                BState("RULE_START", 1, 0), BState("RULE_STOP", 1, 0),
                BState("BLOCK_START", 0, 8), BState("BASIC", 0, 0), BState("BASIC", 0, 0),
                BState("BASIC", 0, 0), BState("BLOCK_END", 0, 0),
                BState("BASIC", 1, 0), BState("BASIC", 1, 0)>>,
   nonGreedy |-> <<>>, precedence |-> <<>>,
   rules |-> <<BRuleEntry(0, 0), BRuleEntry(2, 0)>>, modes |-> <<>>,
   edges |-> <<BEps(0, 4), BEps(4, 5), BEps(4, 7), BRule(5, 2, 1, 0, 6), BEps(6, 6),
               BAtom(7, 8, 2), BEps(8, 1),
               BEps(2, 9), BAtom(9, 10, 1), BEps(10, 3)>>,
   decisions |-> <<4>>]

\* a: B C;  with the rule marked as a precedence rule, though it has no loop.
BlobNoPrefix == [BlobSeq EXCEPT !.precedence = <<0>>]

\* The blobs whose block links are broken.
BrokenNames == {"noend", "claimed"}
BlobNames == {"seq", "shared", "prec", "alts", "lexer", "chain", "lexalts", "lexdirect", "twoends",
              "cycle", "noprefix"}
BlobOf(name) ==
  CASE name = "seq" -> BlobSeq
    [] name = "shared" -> BlobShared
    [] name = "prec" -> BlobPrec
    [] name = "alts" -> BlobAlts
    [] name = "lexer" -> BlobLexer
    [] name = "chain" -> BlobChain
    [] name = "lexalts" -> BlobLexAlts
    [] name = "lexdirect" -> BlobLexDirect
    [] name = "twoends" -> BlobTwoEnds
    [] name = "cycle" -> BlobCycle
    [] name = "noprefix" -> BlobNoPrefix
    [] name = "noend" -> BlobNoEnd
    [] name = "claimed" -> BlobClaimed

\* ATNDeserializationOptions
LoaderOptions == [generateRuleBypassTransitions : BOOLEAN, optimize : BOOLEAN, verifyATN : BOOLEAN]

\* ----------------------------------- CompatibleATNDeserializer: the graph
\* An ATNState as stateFactory makes it. optimized is the optimized transition
\* list once the state has one of its own (isOptimized); until then the
\* optimized list is the raw list.
LState(stateType, ruleIndex) ==
  [stateType |-> stateType, ruleIndex |-> ruleIndex, transitions |-> <<>>,
   epsilonOnly |-> FALSE, isOptimized |-> FALSE, optimized |-> <<>>,
   endState |-> -1, startState |-> -1, loopBackState |-> -1, stopState |-> -1,
   decision |-> -1, nonGreedy |-> FALSE, isPrecedenceRule |-> FALSE, leftFactored |-> FALSE,
   precedenceRuleDecision |-> FALSE]

BlockStartTypes == {"BLOCK_START", "PLUS_BLOCK_START", "STAR_BLOCK_START"}

\* A Transition as edgeFactory makes it. label is the set of token types a
\* matching transition accepts; marker is outermostPrecedenceReturn.
LTransition(type, target) ==
  [type |-> type, target |-> target, label |-> {}, ruleIndex |-> -1, precedence |-> 0,
   followState |-> -1, marker |-> -1, tailCall |-> FALSE, optimizedTailCall |-> FALSE]
EpsilonTransition(target, marker) == [LTransition("EPSILON", target) EXCEPT !.marker = marker]
AtomTransition(target, label) == [LTransition("ATOM", target) EXCEPT !.label = {label}]
RangeTransition(target, from, to) == [LTransition("RANGE", target) EXCEPT !.label = from..to]
SetTransition(target, label) == [LTransition("SET", target) EXCEPT !.label = label]
RuleTransition(start, ruleIndex, precedence, followState) ==
  [LTransition("RULE", start) EXCEPT !.ruleIndex = ruleIndex, !.precedence = precedence,
                                     !.followState = followState]

\* Transition.isEpsilon
LIsEpsilon(t) == t.type \in {"EPSILON", "RULE", "PREDICATE", "PRECEDENCE", "ACTION"}

\* The graph before anything is read.
NewATN(grammarType, maxTokenType) ==
  [grammarType |-> grammarType, maxTokenType |-> maxTokenType, states |-> <<>>,
   ruleToStartState |-> <<>>, ruleToStopState |-> <<>>, ruleToTokenType |-> <<>>,
   modeToStartState |-> <<>>, decisionToState |-> <<>>, error |-> ""]

\* atn.states[n]
LStateOf(g, n) == g.states[n + 1]
StateNumbers(g) == {n - 1 : n \in DOMAIN g.states}
RuleIndices(g) == {i - 1 : i \in DOMAIN g.ruleToStartState}
\* atn.ruleToStartState[r], atn.ruleToStopState[r]: state numbers, -1 for none.
RuleStart(g, r) == g.ruleToStartState[r + 1]
RuleStop(g, r) == g.ruleToStopState[r + 1]

\* ATN.addState: the state gets the next state number.
AddState(g, state) == [g EXCEPT !.states = Append(@, state)]

\* ATNState.addTransition; the first transition decides epsilonOnlyTransitions.
\* Adding a transition of the other kind (epsilon or not) throws.
AddTransition(g, n, t) ==
  IF g.states[n + 1].transitions # <<>> /\ g.states[n + 1].epsilonOnly # LIsEpsilon(t)
  THEN [g EXCEPT !.states[n + 1].epsilonOnly = FALSE,
                 !.error = IF @ = "" THEN "both epsilon and non-epsilon transitions" ELSE @]
  ELSE [g EXCEPT !.states[n + 1].transitions = Append(@, t),
                 !.states[n + 1].epsilonOnly =
                    IF g.states[n + 1].transitions = <<>> THEN LIsEpsilon(t) ELSE @]

\* ATNState.numberOfOptimizedTransitions / getOptimizedTransition
OptimizedOf(state) == IF state.isOptimized THEN state.optimized ELSE state.transitions

\* stateFactory and the arguments read with the entry.
StateFactory(e) ==
  IF e.stype = "INVALID_TYPE" THEN LState("INVALID_TYPE", 0)
  ELSE [LState(e.stype, e.ruleIndex) EXCEPT
          !.loopBackState = IF e.stype = "LOOP_END" THEN e.arg ELSE @,
          !.endState = IF e.stype \in BlockStartTypes THEN e.arg ELSE @]

\* The non-greedy and the precedence tables name the states they flag.
Flagged(blob, state, n) ==
  [state EXCEPT
     !.nonGreedy = \E k \in DOMAIN blob.nonGreedy : blob.nonGreedy[k] = n,
     !.isPrecedenceRule = \E k \in DOMAIN blob.precedence : blob.precedence[k] = n]

\* A STATES loop that would allocate one state more than the table declares.
ReadStatesAndOne(g, blob) ==
  [g EXCEPT !.states = [i \in DOMAIN blob.states |->
                          Flagged(blob, StateFactory(blob.states[i]), i - 1)]
                       \o <<LState("INVALID_TYPE", 0)>>]

\* The STATES table: one state per entry, INVALID_TYPE entries included; the
\* loop-back and end state numbers are resolved once all states exist; then
\* the non-greedy and the precedence flags.
ReadStates(g, blob) ==
  [g EXCEPT !.states = [i \in DOMAIN blob.states |->
                          Flagged(blob, StateFactory(blob.states[i]), i - 1)]]

\* A stop-state scan that would take the rule's start state for its stop state.
StopStateUnscanned(g, r) == RuleStart(g, r)

\* The scan for rule-stop states: the last rule-stop state of rule r, -1 if none.
StopStateScanned(g, r) ==
  LET stops == {n \in StateNumbers(g) :
                  LStateOf(g, n).stateType = "RULE_STOP" /\ LStateOf(g, n).ruleIndex = r}
  IN IF stops = {} THEN -1 ELSE CHOOSE n \in stops : \A m \in stops : m <= n

\* The RULES table: the start state of each rule (and its token type in a
\* lexer), then the stop states found by scanning, linked from the start state.
ReadRules(g, blob) ==
  LET starts == [i \in DOMAIN blob.rules |-> blob.rules[i].start]
      withStarts == [g EXCEPT !.ruleToStartState = starts,
                              !.ruleToTokenType =
                                 IF g.grammarType = "LEXER"
                                 THEN [i \in DOMAIN blob.rules |->
                                         IF blob.rules[i].tokenType = 65535 THEN -1
                                         ELSE blob.rules[i].tokenType]
                                 ELSE @]
      stops == [i \in DOMAIN blob.rules |-> StopStateScanned(withStarts, i - 1)]
      linked(n, state) ==
        IF \E i \in DOMAIN starts : starts[i] = n /\ stops[i] # -1
        THEN [state EXCEPT !.stopState =
                stops[CHOOSE i \in DOMAIN starts :
                        /\ starts[i] = n /\ stops[i] # -1
                        /\ \A j \in DOMAIN starts : (starts[j] = n /\ stops[j] # -1) => stops[j] <= stops[i]]]
        ELSE state
  IN [withStarts EXCEPT !.ruleToStopState = stops,
                        !.states = [i \in DOMAIN g.states |-> linked(i - 1, g.states[i])],
                        !.modeToStartState = blob.modes]

\* edgeFactory
EdgeFactory(e) ==
  CASE e.ttype = "EPSILON" -> EpsilonTransition(e.trg, -1)
    [] e.ttype = "ATOM" -> AtomTransition(e.trg, IF e.arg3 # 0 THEN -1 ELSE e.arg1)
    [] e.ttype = "RANGE" -> RangeTransition(e.trg, IF e.arg3 # 0 THEN -1 ELSE e.arg1, e.arg2)
    [] e.ttype = "RULE" -> RuleTransition(e.arg1, e.arg2, e.arg3, e.trg)
    [] e.ttype = "PRECEDENCE" -> [LTransition("PRECEDENCE", e.trg) EXCEPT !.precedence = e.arg1]
    [] OTHER -> LTransition(e.ttype, e.trg)

\* The EDGES table, in order.
RECURSIVE ReadEdges(_, _)
ReadEdges(g, edges) ==
  IF edges = <<>> THEN g
  ELSE ReadEdges(AddTransition(g, Head(edges).src, EdgeFactory(Head(edges))), Tail(edges))

\* The rule-call transitions of the graph with the state they leave, in the
\* order the synthesis meets them: by state number, then by position.
RECURSIVE RuleCallsFrom(_, _)
RuleCallsFrom(g, n) ==
  IF n >= Len(g.states) THEN <<>>
  ELSE LET IsCall(t) == t.type = "RULE"
           calls == SelectSeq(LStateOf(g, n).transitions, IsCall)
       IN [k \in DOMAIN calls |-> [src |-> n, t |-> calls[k]]] \o RuleCallsFrom(g, n + 1)

\* A synthesis that would skip the calls of precedence rules.
SkipsPrecedenceCalls(g, c) ==
  LStateOf(g, RuleStart(g, LStateOf(g, c.t.target).ruleIndex)).isPrecedenceRule

\* if (!returningFromLeftFactored && returningToLeftFactored) continue;
SkipsReturn(g, c) ==
  LET returningToLeftFactored ==
        /\ LStateOf(g, c.src).ruleIndex >= 0
        /\ LStateOf(g, RuleStart(g, LStateOf(g, c.src).ruleIndex)).leftFactored
      returningFromLeftFactored ==
        LStateOf(g, RuleStart(g, LStateOf(g, c.t.target).ruleIndex)).leftFactored
  IN ~returningFromLeftFactored /\ returningToLeftFactored

\* The key of a call: called rule, return state, outermost-precedence marker.
ReturnKey(g, c) ==
  LET called == LStateOf(g, c.t.target).ruleIndex
  IN [stopState |-> called, returnState |-> c.t.followState,
      outermostPrecedenceReturn |->
        IF LStateOf(g, RuleStart(g, called)).isPrecedenceRule /\ c.t.precedence = 0
        THEN called ELSE -1]

\* A key set that would take every key, seen before or not.
AddsEveryKey(keys, seen) ==
  IF keys = <<>> THEN <<>> ELSE keys

\* returnTransitionsSet.add / returnTransitions.push: the keys not seen before,
\* in the order of their first appearance.
RECURSIVE AddsNewKeys(_, _)
AddsNewKeys(keys, seen) ==
  IF keys = <<>> THEN <<>>
  ELSE IF Head(keys) \in seen THEN AddsNewKeys(Tail(keys), seen)
       ELSE <<Head(keys)>> \o AddsNewKeys(Tail(keys), seen \cup {Head(keys)})

\* The return transitions to add.
ReturnTransitions(g) ==
  LET calls == RuleCallsFrom(g, 0)
      Kept(c) == ~SkipsReturn(g, c)
      kept == SelectSeq(calls, Kept)
  IN AddsNewKeys([k \in DOMAIN kept |-> ReturnKey(g, kept[k])], {})

\* One epsilon transition per element, from the called rule's stop state.
RECURSIVE AddReturnTransitions(_, _)
AddReturnTransitions(g, returns) ==
  IF returns = <<>> THEN g
  ELSE AddReturnTransitions(
         AddTransition(g, RuleStop(g, Head(returns).stopState),
                       EpsilonTransition(Head(returns).returnState,
                                         Head(returns).outermostPrecedenceReturn)),
         Tail(returns))

\* Edges for rule stop states are derived from the rule calls.
SynthesizeReturns(g) == AddReturnTransitions(g, ReturnTransitions(g))

Failed(g, reason) == [g EXCEPT !.error = reason]

\* A test that would let a second block start take a block end.
EndStateNeverTaken(g, end) == FALSE

\* state.endState.startState != null
EndStateTaken(g, end) == LStateOf(g, end).startState # -1

\* The links back from block ends and loop entries, state by state; a block
\* start without end state, or whose end state is taken, fails the load.
RECURSIVE LinkStates(_, _)
LinkStates(g, n) ==
  IF n >= Len(g.states) THEN g
  ELSE LET state == LStateOf(g, n)
           end == state.endState
           backTo(types) ==
             {state.transitions[i].target : i \in
                {j \in DOMAIN state.transitions :
                   LStateOf(g, state.transitions[j].target).stateType \in types}}
           looped(types) ==
             [g EXCEPT !.states = SubSeq([i \in DOMAIN g.states |->
                IF (i - 1) \in backTo(types) THEN [g.states[i] EXCEPT !.loopBackState = n]
                ELSE g.states[i]], 1, Len(g.states))]
       IN IF state.stateType \in BlockStartTypes
          THEN IF end \notin StateNumbers(g) THEN Failed(g, "IllegalStateException")
               ELSE IF EndStateTaken(g, end) THEN Failed(g, "IllegalStateException")
               ELSE LinkStates([g EXCEPT !.states[end + 1].startState = n], n + 1)
          ELSE IF state.stateType = "PLUS_LOOP_BACK"
               THEN LinkStates(looped({"PLUS_BLOCK_START"}), n + 1)
          ELSE IF state.stateType = "STAR_LOOP_BACK"
               THEN LinkStates(looped({"STAR_LOOP_ENTRY"}), n + 1)
          ELSE LinkStates(g, n + 1)

\* A star loop entry of a precedence rule whose last transition leaves the loop
\* straight to the rule's stop state.
IsPrecedenceLoopEntry(g, n) ==
  LET state == LStateOf(g, n)
      exit(m) == /\ LStateOf(g, m).stateType = "LOOP_END"
                 /\ LStateOf(g, m).epsilonOnly
                 /\ LStateOf(g, LStateOf(g, m).transitions[1].target).stateType = "RULE_STOP"
  IN /\ state.stateType = "STAR_LOOP_ENTRY"
     /\ state.transitions # <<>>
     /\ exit(Last(state.transitions).target)

\* A decision table that would number the decisions from 1.
DecisionFromOne(decisions, n) ==
  IF \E k \in DOMAIN decisions : decisions[k] = n
  THEN CHOOSE k \in DOMAIN decisions : decisions[k] = n /\ \A j \in DOMAIN decisions : decisions[j] = n => j <= k
  ELSE -1

\* decState.decision = i - 1, for the entries i = 1..ndecisions in order.
DecisionOf(decisions, n) ==
  IF \E k \in DOMAIN decisions : decisions[k] = n
  THEN (CHOOSE k \in DOMAIN decisions : decisions[k] = n /\ \A j \in DOMAIN decisions : decisions[j] = n => j <= k) - 1
  ELSE -1

\* The DECISIONS table, then markPrecedenceDecisions.
ReadDecisions(g, blob) ==
  [g EXCEPT !.decisionToState = blob.decisions,
            !.states = [i \in DOMAIN g.states |->
               [g.states[i] EXCEPT
                  !.decision = DecisionOf(blob.decisions, i - 1),
                  !.precedenceRuleDecision =
                     /\ g.states[i].stateType = "STAR_LOOP_ENTRY"
                     /\ LStateOf(g, RuleStart(g, g.states[i].ruleIndex)).isPrecedenceRule
                     /\ IsPrecedenceLoopEntry(g, i - 1)]]]

Reverse(seq) == [k \in DOMAIN seq |-> seq[Len(seq) + 1 - k]]

\* The state the bypass of precedence rule i ends on: the first star loop entry
\* of the rule that leaves the loop straight to the rule's stop state; -1 when
\* there is none.
PrecedencePrefixEnd(g, i) ==
  LET found == {n \in StateNumbers(g) :
                  LStateOf(g, n).ruleIndex = i /\ IsPrecedenceLoopEntry(g, n)}
  IN IF found = {} THEN -1 ELSE CHOOSE n \in found : \A m \in found : n <= m

\* A bypass block whose end would not point back at its start.
BypassPairOneWay(i, bypassStart, bypassStop, decision) ==
  << [LState("BLOCK_START", i) EXCEPT !.endState = bypassStop, !.decision = decision],
     LState("BLOCK_END", i) >>

\* bypassStart and bypassStop of rule i, linked to each other; bypassStart is
\* the next decision.
BypassPair(i, bypassStart, bypassStop, decision) ==
  << [LState("BLOCK_START", i) EXCEPT !.endState = bypassStop, !.decision = decision],
     [LState("BLOCK_END", i) EXCEPT !.startState = bypassStart] >>

\* Rule bypass transitions for rule i: a block start (a new decision), a block
\* end and a match state on the rule's own token type are added; the
\* transitions onto the rule's end point go to the block end instead, those
\* out of the rule start leave the block start instead.
BypassRule(g, i) ==
  LET bypassStart == Len(g.states)
      bypassStop == Len(g.states) + 1
      matchState == Len(g.states) + 2
      start == RuleStart(g, i)
      isPrecedence == LStateOf(g, start).isPrecedenceRule
      added ==
        [g EXCEPT
           !.states = @ \o BypassPair(i, bypassStart, bypassStop, Len(g.decisionToState)),
           !.decisionToState = Append(@, bypassStart)]
      endState == IF isPrecedence THEN PrecedencePrefixEnd(added, i) ELSE RuleStop(added, i)
      \* excludeTransition: transition 0 of the loop-back state of the loop entry
      excluded(n, k) ==
        isPrecedence /\ n = LStateOf(added, endState).loopBackState /\ k = 1
      retargeted ==
        [added EXCEPT !.states = SubSeq([n \in DOMAIN added.states |->
           [added.states[n] EXCEPT !.transitions = [k \in DOMAIN @ |->
              IF @[k].target = endState /\ ~excluded(n - 1, k)
              THEN [@[k] EXCEPT !.target = bypassStop] ELSE @[k]]]], 1, Len(added.states))]
      moved(before) ==
        [before EXCEPT !.states[bypassStart + 1].transitions = Reverse(before.states[start + 1].transitions),
                  !.states[bypassStart + 1].epsilonOnly =
                     IF before.states[start + 1].transitions = <<>> THEN @
                     ELSE LIsEpsilon(Last(before.states[start + 1].transitions)),
                  !.states[start + 1].transitions = <<>>]
      linked(emptied) ==
        AddTransition(AddTransition(emptied, start, EpsilonTransition(bypassStart, -1)),
                      bypassStop, EpsilonTransition(endState, -1))
      matched(wired) ==
        AddTransition(
          AddTransition(AddState(wired, LState("BASIC", 0)), matchState,
                        AtomTransition(bypassStop, wired.ruleToTokenType[i + 1])),
          bypassStart, EpsilonTransition(matchState, -1))
  IN IF endState = -1
     THEN Failed(added, "Couldn't identify final state of the precedence rule prefix section.")
     ELSE matched(linked(moved(retargeted)))

\* Token types for the rules that would begin on the largest token type.
BypassTokenTypesFromMax(g) ==
  [g EXCEPT !.ruleToTokenType = [i \in DOMAIN g.ruleToStartState |-> g.maxTokenType + (i - 1)]]

\* atn.ruleToTokenType[i] = atn.maxTokenType + i + 1
BypassTokenTypes(g) ==
  [g EXCEPT !.ruleToTokenType = [i \in DOMAIN g.ruleToStartState |-> g.maxTokenType + (i - 1) + 1]]

\* ------------------------------ CompatibleATNDeserializer: the optimizer
\* What a pass hands on: the graph and the number of changes it counted.
Pass(g, count) == [g |-> g, count |-> count]

NoTransition == LTransition("NONE", -1)

\* A write-back that would put the new list in place of the raw list as well.
SetOptimizedInPlace(g, n, list) ==
  [g EXCEPT !.states[n + 1].isOptimized = @ \/ list # <<>>, !.states[n + 1].optimized = list,
            !.states[n + 1].transitions = list]

\* state.addOptimizedTransition for each transition, after emptying the list.
SetOptimized(g, n, list) ==
  [g EXCEPT !.states[n + 1].isOptimized = @ \/ list # <<>>, !.states[n + 1].optimized = list]

\* The state the rule's only path leads to through single epsilon transitions;
\* -1 when that walk never ends.
RECURSIVE MiddleState(_, _, _)
MiddleState(g, n, fuel) ==
  LET state == LStateOf(g, n)
      ts == OptimizedOf(state)
  IN IF state.epsilonOnly /\ Len(ts) = 1 /\ ts[1].type = "EPSILON"
     THEN IF fuel = 0 THEN -1 ELSE MiddleState(g, ts[1].target, fuel - 1)
     ELSE n

\* ruleToInlineTransition[i]: the single atom, range or set transition rule i
\* consists of, NoTransition when it is not of that shape.
InlineTransitionOf(g, i) ==
  LET shaped(middle) ==
        LET ts == OptimizedOf(LStateOf(g, middle))
            after(matchTarget) ==
              /\ LStateOf(g, matchTarget).epsilonOnly
              /\ Len(OptimizedOf(LStateOf(g, matchTarget))) = 1
              /\ LStateOf(g, OptimizedOf(LStateOf(g, matchTarget))[1].target).stateType = "RULE_STOP"
        IN IF Len(ts) # 1 THEN NoTransition
           ELSE IF LIsEpsilon(ts[1]) \/ ~after(ts[1].target) THEN NoTransition
           ELSE IF ts[1].type \in {"ATOM", "RANGE", "SET"} THEN ts[1]
           ELSE NoTransition
  IN shaped(MiddleState(g, RuleStart(g, i), Len(g.states)))

\* The call sites of one state are rewritten: each call of an inlinable rule
\* becomes an epsilon transition to a new basic state that matches what the
\* rule matches and goes on to the call's follow state. The transitions before
\* the first such call are copied with getOptimizedTransition(i), i being the
\* position of that call.
InlineState(p, n, inline) ==
  LET g == p.g
      state == LStateOf(g, n)
      ts == OptimizedOf(state)
      effective(k) == inline[LStateOf(g, ts[k].target).ruleIndex + 1]
      inlined == {k \in DOMAIN ts : ts[k].type = "RULE" /\ effective(k).type # "NONE"}
      first == CHOOSE k \in inlined : \A j \in inlined : k <= j
      rank(k) == Cardinality({j \in inlined : j < k})
      intermediate(k) ==
        [LState("BASIC", LStateOf(g, ts[k].followState).ruleIndex) EXCEPT
           !.transitions = << [LTransition(effective(k).type, ts[k].followState)
                                 EXCEPT !.label = effective(k).label] >>]
      news == [r \in 1..Cardinality(inlined) |->
                 intermediate(CHOOSE k \in inlined : rank(k) = r - 1)]
      rewritten == [k \in DOMAIN ts |->
                      IF k < first THEN ts[first]
                      ELSE IF k \in inlined THEN EpsilonTransition(Len(g.states) + rank(k), -1)
                      ELSE ts[k]]
  IN IF state.ruleIndex < 0 \/ inlined = {} THEN p
     ELSE Pass(SetOptimized([g EXCEPT !.states = @ \o news], n, rewritten),
               p.count + Cardinality(inlined))

RECURSIVE InlineFrom(_, _, _)
InlineFrom(p, n, inline) ==
  IF n >= Len(p.g.states) THEN p ELSE InlineFrom(InlineState(p, n, inline), n + 1, inline)

\* inlineSetRules2
InlineSetRules(g) ==
  InlineFrom(Pass(g, 0), 0, [i \in DOMAIN g.ruleToStartState |-> InlineTransitionOf(g, i - 1)])

RECURSIVE Flatten(_)
Flatten(seqs) == IF seqs = <<>> THEN <<>> ELSE Head(seqs) \o Flatten(Tail(seqs))

\* A test that would let any state with epsilon transitions be passed through.
IsIntermediateOfAnyType(state) == state.epsilonOnly

\* intermediate.stateType === BASIC && intermediate.onlyHasEpsilonTransitions
IsIntermediate(state) == state.stateType = "BASIC" /\ state.epsilonOnly

\* An epsilon transition without marker onto a basic state all of whose
\* transitions are epsilon transitions without marker is replaced by epsilon
\* transitions to the targets of that state.
CombineState(p, n) ==
  LET g == p.g
      state == LStateOf(g, n)
      ts == OptimizedOf(state)
      plain(t) == t.type = "EPSILON" /\ t.marker = -1
      through(m) == OptimizedOf(LStateOf(g, m))
      spliced == {k \in DOMAIN ts :
                    /\ plain(ts[k])
                    /\ IsIntermediate(LStateOf(g, ts[k].target))
                    /\ \A j \in DOMAIN through(ts[k].target) : plain(through(ts[k].target)[j])}
      rewritten == Flatten([k \in DOMAIN ts |->
                      IF k \in spliced
                      THEN [j \in DOMAIN through(ts[k].target) |->
                              EpsilonTransition(through(ts[k].target)[j].target, -1)]
                      ELSE <<ts[k]>>])
  IN IF ~state.epsilonOnly \/ state.stateType = "RULE_STOP" \/ spliced = {} THEN p
     ELSE Pass(SetOptimized(g, n, rewritten), p.count + Cardinality(spliced))

RECURSIVE CombineFrom(_, _)
CombineFrom(p, n) ==
  IF n >= Len(p.g.states) THEN p ELSE CombineFrom(CombineState(p, n), n + 1)

\* combineChainedEpsilons2
CombineChainedEpsilons(g) == CombineFrom(Pass(g, 0), 0)

\* The alternatives of a decision that are one atom, range or set transition
\* onto a block end are merged into one transition out of a new basic state.
OptimizeDecision(p, d) ==
  LET g == p.g
      state == LStateOf(g, d)
      ts == OptimizedOf(state)
      match(k) == OptimizedOf(LStateOf(g, ts[k].target))[1]
      setTransitions ==
        {k \in DOMAIN ts :
           /\ ts[k].type = "EPSILON"
           /\ Len(OptimizedOf(LStateOf(g, ts[k].target))) = 1
           /\ LStateOf(g, match(k).target).stateType = "BLOCK_END"
           /\ match(k).type \in {"ATOM", "RANGE", "SET"}}
      Kept(k) == k \notin setTransitions
      keptPositions == SelectSeq([k \in DOMAIN ts |-> k], Kept)
      blockEndState == match(CHOOSE k \in setTransitions : \A j \in setTransitions : k <= j).target
      matchSet == UNION {match(k).label : k \in setTransitions}
      least == CHOOSE x \in matchSet : \A y \in matchSet : x <= y
      most == CHOOSE x \in matchSet : \A y \in matchSet : y <= x
      newTransition ==
        IF matchSet = least..most
        THEN IF Cardinality(matchSet) = 1 THEN AtomTransition(blockEndState, least)
             ELSE RangeTransition(blockEndState, least, most)
        ELSE SetTransition(blockEndState, matchSet)
      setOptimizedState == [LState("BASIC", state.ruleIndex) EXCEPT !.transitions = <<newTransition>>]
      rewritten == [k \in DOMAIN keptPositions |-> ts[keptPositions[k]]]
                     \o <<EpsilonTransition(Len(g.states), -1)>>
  IN IF Cardinality(setTransitions) <= 1 THEN p
     ELSE Pass(SetOptimized(AddState(g, setOptimizedState), d, rewritten),
               p.count + (Len(ts) - Len(rewritten)))

RECURSIVE OptimizeDecisions(_, _)
OptimizeDecisions(p, decisions) ==
  IF decisions = <<>> THEN p
  ELSE OptimizeDecisions(OptimizeDecision(p, Head(decisions)), Tail(decisions))

\* optimizeSets2: nothing is done when the order of the edges is to be kept.
OptimizeSets(g, preserveOrder) ==
  IF preserveOrder THEN Pass(g, 0) ELSE OptimizeDecisions(Pass(g, 0), g.decisionToState)

\* A round that would report no change after its first pass changed something.
OptimizeRoundFirstPassOnly(g) == Pass(InlineSetRules(g).g, 0)

\* One round of the optimization loop: the three passes and their total count.
OptimizeRound(g) ==
  LET third(p, q) ==
        LET r == OptimizeSets(q.g, g.grammarType = "LEXER")
        IN Pass(r.g, p.count + q.count + r.count)
      second(p) == third(p, CombineChainedEpsilons(p.g))
  IN second(InlineSetRules(g))

\* ------------------------------ CompatibleATNDeserializer: tail calls
\* The most states one tail-call walk is followed through.
MaxWalk == 40

\* A test that would take every call for a tail call.
TestTailCallAlways(g, worklist, optimizedPath, fuel) == "true"

\* testTailCall2: the states after the call are walked from a stack that takes
\* every target again, marked or not; "true" when only epsilon transitions lead
\* to rule stop states, "false" at the first other state, "diverges" when the
\* walk does not end.
RECURSIVE TestTailCall(_, _, _, _)
TestTailCall(g, worklist, optimizedPath, fuel) ==
  IF worklist = <<>> THEN "true"
  ELSE IF fuel = 0 THEN "diverges"
  ELSE LET state == LStateOf(g, Last(worklist))
           rest == Front(worklist)
           ts == IF optimizedPath THEN OptimizedOf(state) ELSE state.transitions
       IN IF state.stateType = "RULE_STOP" THEN TestTailCall(g, rest, optimizedPath, fuel - 1)
          ELSE IF ~state.epsilonOnly THEN "false"
          ELSE IF \E k \in DOMAIN ts : ts[k].type # "EPSILON" THEN "false"
          ELSE TestTailCall(g, rest \o [k \in DOMAIN ts |-> ts[k].target], optimizedPath, fuel - 1)

\* transition.tailCall and transition.optimizedTailCall of one transition.
MarkTailCall(g, t) ==
  IF t.type # "RULE" THEN t
  ELSE [t EXCEPT !.tailCall = TestTailCall(g, <<t.followState>>, FALSE, MaxWalk) = "true",
                 !.optimizedTailCall = TestTailCall(g, <<t.followState>>, TRUE, MaxWalk) = "true"]

\* Some walk of identifyTailCalls2 does not end.
TailCallsDiverge(g) ==
  \E n \in StateNumbers(g) :
    \E t \in {LStateOf(g, n).transitions[k] : k \in DOMAIN LStateOf(g, n).transitions}
          \cup {OptimizedOf(LStateOf(g, n))[k] : k \in DOMAIN OptimizedOf(LStateOf(g, n))} :
      /\ t.type = "RULE"
      /\ \E optimizedPath \in BOOLEAN :
           TestTailCall(g, <<t.followState>>, optimizedPath, MaxWalk) = "diverges"

\* identifyTailCalls2
IdentifyTailCalls(g) ==
  [g EXCEPT !.states = [i \in DOMAIN g.states |->
     [g.states[i] EXCEPT
        !.transitions = [k \in DOMAIN @ |-> MarkTailCall(g, @[k])],
        !.optimized = [k \in DOMAIN @ |-> MarkTailCall(g, @[k])]]]]

\* ------------------------------ verifyATN
\* The conditions ATNDeserializer.verifyATN checks on every state.
VerifiedState(g, n) ==
  LET state == LStateOf(g, n)
      ts == state.transitions
      typeAt(k) == LStateOf(g, ts[k].target).stateType
  IN /\ state.epsilonOnly \/ Len(ts) <= 1
     /\ state.stateType = "PLUS_BLOCK_START" => state.loopBackState # -1
     /\ state.stateType = "STAR_LOOP_ENTRY" =>
          /\ state.loopBackState # -1
          /\ Len(ts) = 2
          /\ \/ typeAt(1) = "STAR_BLOCK_START" /\ typeAt(2) = "LOOP_END" /\ ~state.nonGreedy
             \/ typeAt(1) = "LOOP_END" /\ typeAt(2) = "STAR_BLOCK_START" /\ state.nonGreedy
     /\ state.stateType = "STAR_LOOP_BACK" => Len(ts) = 1 /\ typeAt(1) = "STAR_LOOP_ENTRY"
     /\ state.stateType = "LOOP_END" => state.loopBackState # -1
     /\ state.stateType = "RULE_START" => state.stopState # -1
     /\ state.stateType \in BlockStartTypes => state.endState # -1
     /\ state.stateType = "BLOCK_END" => state.startState # -1
     /\ state.stateType \in BlockStartTypes \cup
          {"PLUS_LOOP_BACK", "STAR_LOOP_ENTRY", "TOKEN_START"} => state.decision >= 0
     /\ state.stateType \in {"BASIC", "INVALID_TYPE", "RULE_START", "BLOCK_END",
                             "STAR_LOOP_BACK", "LOOP_END"} => Len(ts) <= 1

VerifyATN(g) ==
  IF \A n \in StateNumbers(g) : VerifiedState(g, n) THEN g ELSE Failed(g, "IllegalStateException")

\* ------------------------------ The head of the serialized data
SERIALIZED_VERSION == 3

\* The known format identifiers, as the groups of 16 bits of their text form.
BASE_SERIALIZED_UUID2 == <<58391, 33896, 57237, 17616, 44423, 61994, 23903, 46803>>
ADDED_LEXER_ACTIONS2 == <<43829, 6426, 5635, 18558, 46938, 18331, 33566, 44909>>
ADDED_UNICODE_SMP2 == <<22882, 30596, 15333, 16762, 47595, 33073, 42792, 24713>>
SUPPORTED_UUIDS2 == <<BASE_SERIALIZED_UUID2, ADDED_LEXER_ACTIONS2, ADDED_UNICODE_SMP2>>

\* An identifier no version of the format has.
UnknownUUID == <<0, 1, 65535, 65534, 2, 3, 1, 0>>

\* A search that would answer with the first place when there is none.
FindIndexOrFirst(list, x) ==
  IF \E k \in DOMAIN list : list[k] = x
  THEN (CHOOSE k \in DOMAIN list : list[k] = x /\ \A j \in DOMAIN list : list[j] = x => k <= j) - 1
  ELSE 0

\* Array.findIndex(e => e.equals(x)), counted from 0; -1 when there is none.
FindIndex(list, x) ==
  IF \E k \in DOMAIN list : list[k] = x
  THEN (CHOOSE k \in DOMAIN list : list[k] = x /\ \A j \in DOMAIN list : list[j] = x => k <= j) - 1
  ELSE -1

\* A gate that would enable a feature only for the identifier that introduced it.
IsFeatureSupportedExactly(feature, actualUuid) ==
  FindIndex(SUPPORTED_UUIDS2, feature) >= 0
  /\ FindIndex(SUPPORTED_UUIDS2, actualUuid) = FindIndex(SUPPORTED_UUIDS2, feature)

\* isFeatureSupported
IsFeatureSupported(feature, actualUuid) ==
  IF FindIndex(SUPPORTED_UUIDS2, feature) < 0 THEN FALSE
  ELSE FindIndex(SUPPORTED_UUIDS2, actualUuid) >= FindIndex(SUPPORTED_UUIDS2, feature)

\* The serializer's shift: every word but the first goes up by 2, in 16 bits.
Shifted(words) == [k \in DOMAIN words |-> IF k = 1 THEN words[k] ELSE (words[k] + 2) % 65536]

\* An un-shift that would treat the first word like the others.
UnshiftAll(data) == [k \in DOMAIN data |-> (data[k] + 65534) % 65536]

\* data[i] = (data[i] - 2) & 0xFFFF for i from 1
Unshift(data) == [k \in DOMAIN data |-> IF k = 1 THEN data[k] ELSE (data[k] + 65534) % 65536]

\* ATNDeserializer.toUUID: eight words, the least significant first.
ToUUID(words, p) == [k \in 1..8 |-> words[p + 9 - k]]

\* The words an identifier is serialized to, before the shift.
UUIDWords(uuid) == [k \in 1..8 |-> uuid[9 - k]]

\* The head of a blob as the serializer writes it: version, identifier,
\* grammar type, largest token type.
HeadOf(version, uuid, blob) ==
  Shifted(<<version>> \o UUIDWords(uuid)
          \o <<IF blob.grammarType = "LEXER" THEN 0 ELSE 1, blob.maxTokenType>>)

\* No graph: new ATN has not been reached.
NoATN == [error |-> "", states |-> <<>>]

\* ------------------------------ CompatibleATNDeserializer.deserialize, step by step
\* The most rounds of the optimization loop that are followed.
MaxRounds == 4

debuggerVars == <<grammar, input, hasParser, symbolTable, breakPoints, parseTree, parser,
                  stream, call, visit, pending, delivered, ncalls, script, nextBreakPointId>>

\* deserialize(data) is called on a deserializer made with some options; no
\* debugging session is going on.
LoaderInit ==
  /\ hasParser = FALSE /\ grammar = "seq" /\ symbolTable = {}
  /\ input = <<>>
  /\ breakPoints = <<>>
  /\ nextBreakPointId = 0
  /\ parseTree = Undefined
  /\ parser = InitialParser
  /\ stream = <<"EOF">>
  /\ call = NoCall
  /\ visit = NoVisit
  /\ pending = <<>>
  /\ delivered = <<>>
  /\ ncalls = 0
  /\ script = 0
  /\ backend = NoBackend
  /\ symbols = NoSymbols
  /\ \E name \in BlobNames \cup BrokenNames, options \in LoaderOptions,
        version \in {SERIALIZED_VERSION, 5},
        uuid \in {SUPPORTED_UUIDS2[k] : k \in DOMAIN SUPPORTED_UUIDS2} \cup {UnknownUUID} :
       loader = [phase |-> "unshift", blob |-> name, options |-> options,
                 data |-> HeadOf(version, uuid, BlobOf(name)), words |-> <<>>,
                 supportsLexerActions |-> FALSE, setTables |-> 0,
                 atn |-> NoATN, i |-> 0, rounds |-> 0, verifications |-> 0]

\* Where deserialize goes on after each of its parts.
AfterBypass(options) == IF options.optimize THEN "optimize" ELSE "tailcalls"
AfterFirstVerify(options, g) ==
  IF options.generateRuleBypassTransitions /\ g.grammarType = "PARSER" /\ g.ruleToStartState # <<>>
  THEN "bypass"
  ELSE IF options.generateRuleBypassTransitions /\ g.grammarType = "PARSER" /\ options.verifyATN
  THEN "reverify"
  ELSE AfterBypass(options)
\* A load that would leave out the check of the graph as read.
AfterDecisionsUnverified(options, g) == AfterFirstVerify(options, g)
AfterDecisions(options, g) ==
  IF options.verifyATN THEN "verify" ELSE AfterFirstVerify(options, g)

\* The step is taken; an exception ends the load.
Proceed(g, phase) ==
  loader' = [loader EXCEPT !.atn = g, !.phase = IF g.error # "" THEN "failed" ELSE phase]

\* data = data.slice(0) and the un-shift of the copy.
LoadUnshift ==
  /\ loader.phase = "unshift"
  /\ loader' = [loader EXCEPT !.words = Unshift(loader.data), !.phase = "header"]
  /\ UNCHANGED <<debuggerVars, backend, symbols>>

\* The version and identifier checks, the feature test, new ATN.
LoadHeader ==
  /\ loader.phase = "header"
  /\ LET version == loader.words[1]
         uuid == ToUUID(loader.words, 1)
     IN IF version # SERIALIZED_VERSION
        THEN loader' = [loader EXCEPT !.phase = "failed",
                          !.atn = Failed(NoATN, "Could not deserialize ATN with version")]
        ELSE IF FindIndex(SUPPORTED_UUIDS2, uuid) < 0
        THEN loader' = [loader EXCEPT !.phase = "failed",
                          !.atn = Failed(NoATN, "Could not deserialize ATN with UUID")]
        ELSE loader' = [loader EXCEPT
               !.phase = "states",
               !.supportsLexerActions = IsFeatureSupported(ADDED_LEXER_ACTIONS2, uuid),
               !.atn = NewATN(IF loader.words[10] = 0 THEN "LEXER" ELSE "PARSER",
                              loader.words[11])]
  /\ UNCHANGED <<debuggerVars, backend, symbols>>

LoadStates ==
  /\ loader.phase = "states"
  /\ Proceed(ReadStates(loader.atn, BlobOf(loader.blob)), "rules")
  /\ UNCHANGED <<debuggerVars, backend, symbols>>

LoadRules ==
  /\ loader.phase = "rules"
  /\ Proceed(ReadRules(loader.atn, BlobOf(loader.blob)), "edges")
  /\ UNCHANGED <<debuggerVars, backend, symbols>>

LoadEdges ==
  /\ loader.phase = "edges"
  /\ \E g \in {ReadEdges(loader.atn, BlobOf(loader.blob).edges)} :
       loader' = [loader EXCEPT
         !.atn = g,
         !.setTables = IF IsFeatureSupported(ADDED_UNICODE_SMP2, ToUUID(loader.words, 1))
                       THEN 2 ELSE 1,
         !.phase = IF g.error # "" THEN "failed" ELSE "returns"]
  /\ UNCHANGED <<debuggerVars, backend, symbols>>

LoadReturns ==
  /\ loader.phase = "returns"
  /\ Proceed(SynthesizeReturns(loader.atn), "links")
  /\ UNCHANGED <<debuggerVars, backend, symbols>>

LoadLinks ==
  /\ loader.phase = "links"
  /\ Proceed(LinkStates(loader.atn, 0), "decisions")
  /\ UNCHANGED <<debuggerVars, backend, symbols>>

LoadDecisions ==
  /\ loader.phase = "decisions"
  /\ \E g \in {ReadDecisions(loader.atn, BlobOf(loader.blob))} :
       Proceed(g, AfterDecisions(loader.options, g))
  /\ UNCHANGED <<debuggerVars, backend, symbols>>

\* this.verifyATN(atn), after the tables, after the bypass, after the optimizer.
LoadVerify ==
  /\ loader.phase \in {"verify", "reverify", "verify optimized"}
  /\ \E g \in {VerifyATN(loader.atn)} :
       loader' = [loader EXCEPT
         !.atn = g,
         !.verifications = @ + 1,
         !.phase = IF g.error # "" THEN "failed"
                   ELSE IF loader.phase = "verify" THEN AfterFirstVerify(loader.options, g)
                   ELSE IF loader.phase = "reverify" THEN AfterBypass(loader.options)
                   ELSE "tailcalls"]
  /\ UNCHANGED <<debuggerVars, backend, symbols>>

\* One turn of the bypass loop; the token types are given out before the first.
LoadBypass ==
  /\ loader.phase = "bypass"
  /\ \E g \in {BypassRule(IF loader.i = 0 THEN BypassTokenTypes(loader.atn) ELSE loader.atn,
                          loader.i)} :
       loader' = [loader EXCEPT
         !.atn = g,
         !.i = @ + 1,
         !.phase = IF g.error # "" THEN "failed"
                   ELSE IF loader.i + 1 < Len(g.ruleToStartState) THEN "bypass"
                   ELSE IF loader.options.verifyATN THEN "reverify"
                   ELSE AfterBypass(loader.options)]
  /\ UNCHANGED <<debuggerVars, backend, symbols>>

\* One round of while (true): the loop is left after a round that changed nothing.
LoadOptimize ==
  /\ loader.phase = "optimize"
  /\ loader.rounds < MaxRounds
  /\ \E r \in {OptimizeRound(loader.atn)} :
       loader' = [loader EXCEPT
         !.atn = r.g,
         !.rounds = @ + 1,
         !.phase = IF r.g.error # "" THEN "failed"
                   ELSE IF r.count # 0 THEN "optimize"
                   ELSE IF loader.options.verifyATN THEN "verify optimized"
                   ELSE "tailcalls"]
  /\ UNCHANGED <<debuggerVars, backend, symbols>>

\* identifyTailCalls2 and return atn; a walk that does not end keeps the load
\* from returning.
LoadTailCalls ==
  /\ loader.phase = "tailcalls"
  /\ IF TailCallsDiverge(loader.atn)
     THEN loader' = [loader EXCEPT !.phase = "hung"]
     ELSE \E g \in {IdentifyTailCalls(loader.atn)} :
            loader' = [loader EXCEPT !.atn = g, !.phase = "returned"]
  /\ UNCHANGED <<debuggerVars, backend, symbols>>

LoaderNext ==
  \/ LoadUnshift
  \/ LoadHeader
  \/ LoadStates
  \/ LoadRules
  \/ LoadEdges
  \/ LoadReturns
  \/ LoadLinks
  \/ LoadDecisions
  \/ LoadVerify
  \/ LoadBypass
  \/ LoadOptimize
  \/ LoadTailCalls

LoaderSpec == LoaderInit /\ [][LoaderNext]_vars

\* The load has returned its graph.
Loaded == loader.phase = "returned"
Declared == Len(BlobOf(loader.blob).states)

\* ------------------------------ Claims about the loaded graph
\* The states the bypass construction adds: three per rule of a parser grammar.
BypassStates ==
  IF loader.options.generateRuleBypassTransitions /\ loader.atn.grammarType = "PARSER"
  THEN 3 * Len(loader.atn.ruleToStartState) ELSE 0

\* C16 as stated: whatever the options, the returned graph has exactly the
\* number of states the blob's state table declares.
C16_DeclaredStateCount == Loaded => Len(loader.atn.states) = Declared

\* C16: the returned graph has the declared states, three more per rule when
\* the bypass transitions are generated for a parser grammar, and beyond these
\* only what the optimizer added; without optimization the count is exact.
C16_StateCount ==
  Loaded =>
    /\ Len(loader.atn.states) >= Declared + BypassStates
    /\ ~loader.options.optimize => Len(loader.atn.states) = Declared + BypassStates
    /\ \A n \in 1..Declared :
         loader.atn.states[n].stateType = BlobOf(loader.blob).states[n].stype

C16_Witness ==
  /\ Loaded
  /\ loader.blob = "shared"
  /\ loader.options.generateRuleBypassTransitions
  /\ ~loader.options.optimize
  /\ Len(loader.atn.states) = Declared + 6

\* The rules table has been read.
RulesRead == loader.phase \notin {"idle", "unshift", "header", "states", "rules", "failed"}

\* C17: once the rules are read, and so in the returned graph, every rule has
\* one start state and one stop state of its own, and they are linked:
\* ruleToStopState[i] is a rule stop state of rule i and
\* ruleToStartState[i].stopState is that state.
C17_StartStopLinked ==
  RulesRead =>
    \A i \in RuleIndices(loader.atn) :
      LET g == loader.atn
          start == RuleStart(g, i)
          stop == RuleStop(g, i)
      IN /\ start \in StateNumbers(g) /\ stop \in StateNumbers(g)
         /\ LStateOf(g, start).stateType = "RULE_START" /\ LStateOf(g, start).ruleIndex = i
         /\ LStateOf(g, stop).stateType = "RULE_STOP" /\ LStateOf(g, stop).ruleIndex = i
         /\ LStateOf(g, start).stopState = stop
         /\ Cardinality({n \in StateNumbers(g) :
               LStateOf(g, n).stateType = "RULE_STOP" /\ LStateOf(g, n).ruleIndex = i}) = 1
         /\ Cardinality({n \in StateNumbers(g) :
               LStateOf(g, n).stateType = "RULE_START" /\ LStateOf(g, n).ruleIndex = i}) = 1

C17_Witness ==
  /\ Loaded
  /\ loader.blob = "prec"
  /\ Len(loader.atn.ruleToStartState) = 2
  /\ LStateOf(loader.atn, RuleStart(loader.atn, 1)).stopState = RuleStop(loader.atn, 1)
  /\ RuleStop(loader.atn, 1) # RuleStop(loader.atn, 0)

\* The decision table has been read.
DecisionsRead ==
  loader.phase \in {"verify", "bypass", "reverify", "optimize", "verify optimized",
                    "tailcalls", "returned"}

\* C18: the decision indices are the positions in the decision list, from 0:
\* the k-th entry is a state whose decision is k, no state is listed twice,
\* no other state has a decision, and the bypass block starts are listed too.
C18_DecisionBijection ==
  DecisionsRead =>
    LET g == loader.atn
        decisions == g.decisionToState
    IN /\ \A k \in DOMAIN decisions :
            /\ decisions[k] \in StateNumbers(g)
            /\ LStateOf(g, decisions[k]).decision = k - 1
       /\ \A j, k \in DOMAIN decisions : decisions[j] = decisions[k] => j = k
       /\ \A n \in StateNumbers(g) :
            LStateOf(g, n).decision # -1 =>
              \E k \in DOMAIN decisions : decisions[k] = n
       /\ Len(decisions) = Len(BlobOf(loader.blob).decisions)
                           + (IF loader.phase = "bypass" THEN loader.i
                              ELSE IF loader.i > 0 THEN Len(g.ruleToStartState) ELSE 0)

\* A returned graph whose decision list holds the blob's two decisions and
\* one bypass block start per rule.
C18_Witness ==
  /\ Loaded
  /\ loader.blob = "prec"
  /\ loader.options.generateRuleBypassTransitions
  /\ Len(loader.atn.decisionToState) = 4
  /\ LStateOf(loader.atn, loader.atn.decisionToState[4]).stateType = "BLOCK_START"
  /\ LStateOf(loader.atn, loader.atn.decisionToState[4]).decision = 3

\* The return transitions are in the graph and the bypass has not moved any
\* transition.
ReturnsSynthesized ==
  \/ loader.phase \in {"links", "decisions", "verify"}
  \/ Loaded /\ BypassStates = 0

\* The keys of the rule calls of the graph: called rule, return state, marker.
CallKeys(g) ==
  {[rule |-> LStateOf(g, t.target).ruleIndex,
    returnState |-> t.followState,
    marker |-> IF LStateOf(g, RuleStart(g, LStateOf(g, t.target).ruleIndex)).isPrecedenceRule
                  /\ t.precedence = 0
               THEN LStateOf(g, t.target).ruleIndex ELSE -1] :
     t \in {x \in UNION {{LStateOf(g, n).transitions[k] : k \in DOMAIN LStateOf(g, n).transitions} :
                           n \in StateNumbers(g)} : x.type = "RULE"}}

\* C19: the stop state of each rule carries one epsilon transition per key of
\* a call of that rule, to the key's return state and with the key's marker,
\* and nothing else; call sites that share a key share the transition.
C19_OneReturnPerKey ==
  ReturnsSynthesized =>
    \A r \in RuleIndices(loader.atn) :
      LET g == loader.atn
          returns == LStateOf(g, RuleStop(g, r)).transitions
          keys == {key \in CallKeys(g) : key.rule = r}
      IN /\ Len(returns) = Cardinality(keys)
         /\ \A j \in DOMAIN returns : returns[j].type = "EPSILON"
         /\ \A key \in keys :
              Cardinality({j \in DOMAIN returns :
                 returns[j].target = key.returnState /\ returns[j].marker = key.marker}) = 1

\* Rule b of (b | b) C is called from two states that return to the same
\* state: its stop state has one return transition.
C19_Witness ==
  /\ loader.phase = "links"
  /\ loader.blob = "shared"
  /\ Cardinality({n \in StateNumbers(loader.atn) :
        \E k \in DOMAIN LStateOf(loader.atn, n).transitions :
          /\ LStateOf(loader.atn, n).transitions[k].type = "RULE"
          /\ LStateOf(loader.atn, n).transitions[k].followState = 12}) = 2
  /\ Len(LStateOf(loader.atn, RuleStop(loader.atn, 1)).transitions) = 1
  /\ LStateOf(loader.atn, RuleStop(loader.atn, 1)).transitions[1].target = 12

\* The rule calls of the graph, each with the state it leaves.
CallSites(g) ==
  UNION {{[src |-> n, t |-> LStateOf(g, n).transitions[k]] :
            k \in {j \in DOMAIN LStateOf(g, n).transitions :
                     LStateOf(g, n).transitions[j].type = "RULE"}} :
         n \in StateNumbers(g)}

\* The call enters a left-factored rule from a state whose rule is not
\* left-factored.
IntoLeftFactored(g, c) ==
  /\ LStateOf(g, RuleStart(g, LStateOf(g, c.t.target).ruleIndex)).leftFactored
  /\ ~(/\ LStateOf(g, c.src).ruleIndex >= 0
       /\ LStateOf(g, RuleStart(g, LStateOf(g, c.src).ruleIndex)).leftFactored)

Optimized ==
  /\ loader.options.optimize
  /\ loader.phase \in {"verify optimized", "tailcalls", "returned"}

\* C21: once the loop has stopped on a round that reported no change, one
\* more round of the three passes reports no change, alters no optimized
\* transition list and adds no state.
C21_FixpointIsStable ==
  Optimized =>
    /\ OptimizeRound(loader.atn).count = 0
    /\ Len(OptimizeRound(loader.atn).g.states) = Len(loader.atn.states)
    /\ \A n \in StateNumbers(loader.atn) :
         OptimizedOf(LStateOf(OptimizeRound(loader.atn).g, n)) = OptimizedOf(LStateOf(loader.atn, n))

\* a: b C; b: c; c: B takes two rounds that change something: the call of c
\* is inlined first, which makes b a rule of one token, inlined next.
C21_Witness ==
  /\ Optimized
  /\ loader.phase = "tailcalls"
  /\ loader.blob = "chain"
  /\ loader.rounds = 3
  /\ Len(loader.atn.states) > Declared + BypassStates

\* The token types a state can start matching with, over the raw or over the
\* optimized transitions, rule calls entered and returns not followed.
RECURSIVE FirstOf(_, _, _, _)
FirstOf(g, n, optimizedPath, fuel) ==
  LET ts == IF optimizedPath THEN OptimizedOf(LStateOf(g, n)) ELSE LStateOf(g, n).transitions
  IN IF fuel = 0 \/ LStateOf(g, n).stateType = "RULE_STOP" THEN {}
     ELSE UNION {IF ts[k].type \in {"ATOM", "RANGE", "SET"} THEN ts[k].label
                 ELSE FirstOf(g, ts[k].target, optimizedPath, fuel - 1) : k \in DOMAIN ts}

\* What alternative k of a list starts with.
AlternativeStarts(g, list, optimizedPath) ==
  [k \in DOMAIN list |->
     IF list[k].type \in {"ATOM", "RANGE", "SET"} THEN list[k].label
     ELSE FirstOf(g, list[k].target, optimizedPath, Len(g.states))]

\* C22 as stated: in a lexer graph the optimized list of every decision state
\* has the alternatives of the raw list, each in its place: as many
\* transitions, and the k-th starts with the token types the k-th raw
\* alternative starts with. Violated by A: ('b' | F) when the block start
\* carries the call of F itself: its optimized list starts twice with 'a'.
C22_LexerOrderKept ==
  (Optimized /\ loader.atn.grammarType = "LEXER") =>
    \A k \in DOMAIN loader.atn.decisionToState :
      LET g == loader.atn
          d == LStateOf(g, g.decisionToState[k])
      IN AlternativeStarts(g, OptimizedOf(d), TRUE) = AlternativeStarts(g, d.transitions, FALSE)

\* The states reached from a set of states through epsilon transitions, over
\* the raw or the optimized lists, rule stop states not being left.
RECURSIVE EpsilonReach(_, _, _)
EpsilonReach(g, seen, optimizedPath) ==
  LET list(n) == IF optimizedPath THEN OptimizedOf(LStateOf(g, n)) ELSE LStateOf(g, n).transitions
      next == UNION {{list(n)[k].target :
                        k \in {j \in DOMAIN list(n) : list(n)[j].type = "EPSILON"}} :
                     n \in {m \in seen : LStateOf(g, m).stateType # "RULE_STOP"}}
  IN IF next \subseteq seen THEN seen ELSE EpsilonReach(g, seen \cup next, optimizedPath)

\* Every state reached from the return state is a rule stop state or has
\* epsilon transitions only.
OnlyEpsilonsToStop(g, followState, optimizedPath) ==
  \A n \in EpsilonReach(g, {followState}, optimizedPath) :
    \/ LStateOf(g, n).stateType = "RULE_STOP"
    \/ LET list == IF optimizedPath THEN OptimizedOf(LStateOf(g, n))
                   ELSE LStateOf(g, n).transitions
       IN \A k \in DOMAIN list : list[k].type = "EPSILON"

\* C23: in the returned graph every rule call, in a raw or in an optimized
\* list, has tailCall true exactly when only epsilon transitions lead from
\* its return state to rule stop states over the raw lists, and
\* optimizedTailCall true exactly when this is so over the optimized lists.
C23_TailCalls ==
  Loaded =>
    \A n \in StateNumbers(loader.atn) :
      \A list \in {LStateOf(loader.atn, n).transitions, LStateOf(loader.atn, n).optimized} :
        \A k \in DOMAIN list :
          list[k].type = "RULE" =>
            /\ list[k].tailCall <=> OnlyEpsilonsToStop(loader.atn, list[k].followState, FALSE)
            /\ list[k].optimizedTailCall <=> OnlyEpsilonsToStop(loader.atn, list[k].followState, TRUE)

\* In a: b C; b: c; c: B the body of b is the call of c, followed at once by
\* the end of b: a tail call, also after optimization; the call of b in a,
\* followed by C, is none.
C23_Witness ==
  /\ Loaded
  /\ loader.blob = "chain"
  /\ loader.options.optimize
  /\ LStateOf(loader.atn, 9).transitions[1].type = "RULE"
  /\ LStateOf(loader.atn, 9).transitions[1].tailCall
  /\ LStateOf(loader.atn, 9).transitions[1].optimizedTailCall
  /\ LStateOf(loader.atn, 6).transitions[1].type = "RULE"
  /\ ~LStateOf(loader.atn, 6).transitions[1].tailCall
  /\ ~LStateOf(loader.atn, 6).transitions[1].optimizedTailCall

\* ------------------------------ Claims about the head of the data
\* The identifier the caller's data carries: words 2 to 9, two less each, the
\* last word first.
InputUUID == [k \in 1..8 |-> (loader.data[10 - k] - 2) % 65536]
KnownUUIDs == {BASE_SERIALIZED_UUID2, ADDED_LEXER_ACTIONS2, ADDED_UNICODE_SMP2}
BadHead == loader.data[1] # 3 \/ InputUUID \notin KnownUUIDs
HeadRead == loader.phase \notin {"unshift", "header"}

\* C24: when the first word is not the supported version, or the identifier
\* that follows is not a known one, deserialize ends with an error and no
\* graph at all: no state is ever read.
C24_BadHeadFails ==
  BadHead =>
    /\ loader.phase \in {"unshift", "header", "failed"}
    /\ loader.atn.states = <<>>
    /\ DOMAIN loader.atn = {"error", "states"}
    /\ HeadRead => loader.phase = "failed" /\ loader.atn.error # ""

\* The version is right, the identifier is unknown: the load has failed.
C24_Witness ==
  /\ loader.phase = "failed"
  /\ loader.data[1] = 3
  /\ InputUUID = UnknownUUID
  /\ loader.atn.error = "Could not deserialize ATN with UUID"

\* C25: a feature is enabled exactly when the data's identifier is at or after
\* the feature's place in (base, lexer actions, extended sets): the base
\* identifier enables nothing, the lexer-actions identifier the action table
\* only, the extended-sets identifier the action table and the second set
\* table; a feature that is not in the list is never enabled.
C25_FeatureGating ==
  /\ HeadRead /\ ~BadHead =>
       /\ loader.supportsLexerActions
            <=> InputUUID \in {ADDED_LEXER_ACTIONS2, ADDED_UNICODE_SMP2}
       /\ loader.setTables # 0 => (loader.setTables = 2 <=> InputUUID = ADDED_UNICODE_SMP2)
  /\ \A actual \in KnownUUIDs \cup {UnknownUUID} : ~IsFeatureSupported(UnknownUUID, actual)

\* A blob with the lexer-actions identifier is loaded: actions, one set table.
C25_Witness ==
  /\ Loaded
  /\ InputUUID = ADDED_LEXER_ACTIONS2
  /\ loader.supportsLexerActions
  /\ loader.setTables = 1

\* C26: before anything is decoded every word but the first is replaced by
\* (word - 2) mod 65536, so that 0 becomes 65534, 1 becomes 65535 and 2
\* becomes 0; the first word is left as it is.
C26_Unshift ==
  loader.phase # "unshift" =>
    /\ Len(loader.words) = Len(loader.data)
    /\ loader.words[1] = loader.data[1]
    /\ \A k \in 2..Len(loader.data) :
         loader.words[k] = CASE loader.data[k] = 0 -> 65534
                             [] loader.data[k] = 1 -> 65535
                             [] OTHER -> loader.data[k] - 2

\* Data with the words 0, 1 and 2 behind the first word has been un-shifted.
C26_Witness ==
  /\ loader.phase = "header"
  /\ \E a, b, c \in 2..Len(loader.data) :
       /\ loader.data[a] = 0 /\ loader.words[a] = 65534
       /\ loader.data[b] = 1 /\ loader.words[b] = 65535
       /\ loader.data[c] = 2 /\ loader.words[c] = 0
  /\ loader.data[1] = 3 /\ loader.words[1] = 3

\* ------------------------------ Claims about block starts and block ends
BlockStarts(g) == {n \in StateNumbers(g) : LStateOf(g, n).stateType \in BlockStartTypes}

\* Some block start has no end state, or two block starts name the same one.
EndStatesBroken(g) ==
  \/ \E n \in BlockStarts(g) : LStateOf(g, n).endState \notin StateNumbers(g)
  \/ \E n, m \in BlockStarts(g) : n # m /\ LStateOf(g, n).endState = LStateOf(g, m).endState

\* C27: linking block starts and block ends fails the whole load when a block
\* start has no end state or its end state is already another block start's.
C27_BrokenLinksFail ==
  [][loader.phase = "links" /\ EndStatesBroken(loader.atn)
       => loader'.phase = "failed" /\ loader'.atn.error = "IllegalStateException"]_vars

\* Two block starts name one block end: the load has failed.
C27_Witness ==
  /\ loader.phase = "failed"
  /\ loader.atn.error = "IllegalStateException"
  /\ \E n, m \in BlockStarts(loader.atn) :
       n # m /\ LStateOf(loader.atn, n).endState = LStateOf(loader.atn, m).endState

\* C28: in every graph that is returned, with or without rule bypass
\* transitions, each block start's end state points back at it, and no block
\* end is the end state of two block starts.
C28_BlockLinks ==
  Loaded =>
    \A n \in BlockStarts(loader.atn) :
      /\ LStateOf(loader.atn, n).endState \in StateNumbers(loader.atn)
      /\ LStateOf(loader.atn, LStateOf(loader.atn, n).endState).startState = n
      /\ \A m \in BlockStarts(loader.atn) :
           LStateOf(loader.atn, m).endState = LStateOf(loader.atn, n).endState => m = n

\* A returned graph with a block read from the data and a bypass block.
C28_Witness ==
  /\ Loaded
  /\ \E n, m \in BlockStarts(loader.atn) : n < Declared /\ m >= Declared

\* ------------------------------ Claims about what the optimizer leaves alone
\* C30: the optimizer rewrites optimized transition lists only: a round of the
\* optimization loop leaves the raw transition list of every state that was
\* there before the round as it was (length, order, kinds, targets, labels),
\* and so do all the rounds together.
C30_RawListsKept ==
  [][loader.phase = "optimize" =>
       \A n \in StateNumbers(loader.atn) :
         LStateOf(loader'.atn, n).transitions = LStateOf(loader.atn, n).transitions]_vars

\* The optimizer is done and has given a state that was read from the data an
\* optimized list that differs from its raw list.
C30_Witness ==
  /\ Optimized
  /\ \E n \in StateNumbers(loader.atn) :
       /\ n < Declared
       /\ LStateOf(loader.atn, n).isOptimized
       /\ LStateOf(loader.atn, n).optimized # LStateOf(loader.atn, n).transitions

\* ------------------------------ The backend's grammar contexts
\* The grammar files the tests load and release.
GrammarFiles == {"test/t.g4", "test/t.g", "test/TParser.g4"}

\* The most source contexts that are made.
MaxContexts == 4

\* A release that would leave the context in the cache.
Kept(contexts, file) == contexts

\* The entry of the file is dropped.
Dropped(contexts, file) == [f \in DOMAIN contexts \ {file} |-> contexts[f]]

\* The entry of the file is the given context.
Populated(contexts, file, context) ==
  [f \in DOMAIN contexts \cup {file} |-> IF f = file THEN context ELSE contexts[f]]

\* getSelfDiagnostics().contextCount
ContextCount == Cardinality(DOMAIN backend.contexts)

\* A backend without contexts. contexts is the cache, created the number of
\* contexts made so far; op, file, hit and returned tell of the latest call;
\* held are the files loaded and not released since, given the context each
\* file's latest load returned.
BackendInit ==
  /\ hasParser = FALSE /\ grammar = "seq" /\ symbolTable = {}
  /\ input = <<>>
  /\ breakPoints = <<>>
  /\ nextBreakPointId = 0
  /\ parseTree = Undefined
  /\ parser = InitialParser
  /\ stream = <<"EOF">>
  /\ call = NoCall
  /\ visit = NoVisit
  /\ pending = <<>>
  /\ delivered = <<>>
  /\ ncalls = 0
  /\ script = 0
  /\ loader = NoLoad
  /\ symbols = NoSymbols
  /\ backend = [phase |-> "ready", contexts |-> <<>>, created |-> 0,
                op |-> "none", file |-> "", hit |-> FALSE, returned |-> 0,
                held |-> {}, given |-> <<>>]

\* backend.loadGrammar(file): the cached context, or a new one that is cached.
LoadGrammar(file) ==
  /\ backend.phase = "ready"
  /\ file \in DOMAIN backend.contexts \/ backend.created < MaxContexts
  /\ LET hit == file \in DOMAIN backend.contexts
         context == IF hit THEN backend.contexts[file] ELSE backend.created + 1
     IN backend' = [backend EXCEPT
          !.contexts = IF hit THEN @ ELSE Populated(@, file, context),
          !.created = IF hit THEN @ ELSE @ + 1,
          !.op = "loadGrammar", !.file = file, !.hit = hit, !.returned = context,
          !.held = @ \cup {file},
          !.given = Populated(@, file, context)]
  /\ UNCHANGED <<debuggerVars, loader, symbols>>

\* backend.releaseGrammar(file)
ReleaseGrammar(file) ==
  /\ backend.phase = "ready"
  /\ backend' = [backend EXCEPT
       !.contexts = Dropped(@, file),
       !.op = "releaseGrammar", !.file = file, !.hit = file \in DOMAIN backend.contexts,
       !.returned = 0,
       !.held = @ \ {file}]
  /\ UNCHANGED <<debuggerVars, loader, symbols>>

BackendNext ==
  \/ \E file \in GrammarFiles : LoadGrammar(file)
  \/ \E file \in GrammarFiles : ReleaseGrammar(file)

BackendSpec == BackendInit /\ [][BackendNext]_vars

\* C29: loading a grammar that is loaded and not released returns the very
\* context it was given before; loading it after its release returns a new
\* context, different from every context given out before; and when every
\* loaded grammar has been released there is no live context.
C29_ContextCache ==
  /\ [][backend'.op = "loadGrammar" =>
          IF backend'.file \in backend.held
          THEN backend'.returned = backend.given[backend'.file]
          ELSE \A f \in DOMAIN backend.given : backend'.returned # backend.given[f]]_vars
  /\ [](backend.phase = "ready" /\ backend.held = {} => ContextCount = 0)

\* A grammar was loaded, released, loaded and loaded again: the last load
\* found the second context.
C29_Witness ==
  /\ backend.phase = "ready"
  /\ backend.op = "loadGrammar" /\ backend.hit
  /\ backend.created = 2 /\ backend.returned = 2
  /\ DOMAIN backend.given = {"test/t.g4"}

\* ------------------------------ Claims about the passes of the optimizer
\* The rule calls in a state's optimized list that the inline pass replaces.
InlinableCalls(g, n) ==
  LET ts == OptimizedOf(LStateOf(g, n))
  IN {k \in DOMAIN ts :
        /\ ts[k].type = "RULE"
        /\ InlineTransitionOf(g, LStateOf(g, ts[k].target).ruleIndex).type # "NONE"}

\* Position k of state n, an inlinable call before the pass, is after the pass
\* an epsilon transition to a new basic state whose only transition is a copy
\* of the rule's match and leads to the call's follow state.
InlinedAt(g, after, n, k) ==
  LET site == OptimizedOf(LStateOf(g, n))[k]
      effective == InlineTransitionOf(g, LStateOf(g, site.target).ruleIndex)
      edge == OptimizedOf(LStateOf(after, n))[k]
  IN /\ edge.type = "EPSILON"
     /\ edge.target >= Len(g.states)
     /\ edge.target \in StateNumbers(after)
     /\ LStateOf(after, edge.target).stateType = "BASIC"
     /\ LStateOf(after, edge.target).transitions =
          << [effective EXCEPT !.target = site.followState] >>

\* The transitions of state n that are no inlinable calls and lie at the
\* positions ks are the same before and after the pass.
OthersKept(g, after, n, ks) ==
  \A k \in ks \ InlinableCalls(g, n) :
    OptimizedOf(LStateOf(after, n))[k] = OptimizedOf(LStateOf(g, n))[k]

\* What the inline pass does to state n, but for the transitions before the
\* first inlinable call.
InlinedFrom(g, r, n) ==
  LET ts == OptimizedOf(LStateOf(g, n))
      calls == InlinableCalls(g, n)
  IN calls # {} =>
       /\ Len(OptimizedOf(LStateOf(r.g, n))) = Len(ts)
       /\ \A k \in calls : InlinedAt(g, r.g, n, k)
       /\ \A k, j \in calls :
            k # j => OptimizedOf(LStateOf(r.g, n))[k].target # OptimizedOf(LStateOf(r.g, n))[j].target
       /\ OthersKept(g, r.g, n, {k \in DOMAIN ts : \E c \in calls : c < k})

RECURSIVE SumOver(_, _)
SumOver(f, S) == IF S = {} THEN 0 ELSE LET x == CHOOSE x \in S : TRUE IN f[x] + SumOver(f, S \ {x})

CallsReplaced(g) ==
  SumOver([n \in StateNumbers(g) |-> Cardinality(InlinableCalls(g, n))], StateNumbers(g))

InlineAsStated(g, r) ==
  /\ \A n \in StateNumbers(g) :
       /\ InlinedFrom(g, r, n)
       /\ InlinableCalls(g, n) # {} => OthersKept(g, r.g, n, DOMAIN OptimizedOf(LStateOf(g, n)))
  /\ r.count = CallsReplaced(g)

\* C31 as stated: the inline pass keeps the length of a list with an inlinable
\* call at position i, keeps the transitions 0..i-1 and every other transition
\* that is no inlinable call, puts an epsilon transition to a new basic state
\* with a copy of the match in place of each inlinable call, and returns the
\* number of calls replaced. Violated when an inlinable call is not the first
\* transition of its state: the transitions before it are lost.
C31_InlineAsStated ==
  loader.phase = "optimize" => InlineAsStated(loader.atn, InlineSetRules(loader.atn))

\* The graph the third pass of a round is given.
SetsInput(g) == CombineChainedEpsilons(InlineSetRules(g).g).g

\* The alternatives of decision d that are an epsilon transition onto a state
\* with one transition, an atom, range or set match onto a block end.
MatchOf(g, d, k) == OptimizedOf(LStateOf(g, OptimizedOf(LStateOf(g, d))[k].target))[1]
Qualifying(g, d) ==
  LET ts == OptimizedOf(LStateOf(g, d))
  IN {k \in DOMAIN ts :
        /\ ts[k].type = "EPSILON"
        /\ Len(OptimizedOf(LStateOf(g, ts[k].target))) = 1
        /\ MatchOf(g, d, k).type \in {"ATOM", "RANGE", "SET"}
        /\ LStateOf(g, MatchOf(g, d, k).target).stateType = "BLOCK_END"}

\* The merged transition for a union of labels onto a block end.
MergedMatch(union, blockEnd, t) ==
  /\ t.target = blockEnd
  /\ t.label = union
  /\ t.type = IF Cardinality(union) = 1 THEN "ATOM"
              ELSE IF \A x, z \in union : \A y \in x..z : y \in union THEN "RANGE"
              ELSE "SET"

\* Decision d after the pass: untouched, or its qualifying alternatives, more
\* than one and all onto one block end, merged into one alternative at the end.
CollapsedAsStated(g, after, d) ==
  LET ts == OptimizedOf(LStateOf(g, d))
      us == OptimizedOf(LStateOf(after, d))
      merged == Qualifying(g, d)
      ends == {MatchOf(g, d, k).target : k \in merged}
      union == UNION {MatchOf(g, d, k).label : k \in merged}
      Other(k) == k \notin merged
      others == SelectSeq([k \in DOMAIN ts |-> k], Other)
      last == us[Len(us)]
  IN us # ts =>
       /\ Cardinality(merged) > 1
       /\ Cardinality(ends) = 1
       /\ Len(us) = Len(others) + 1
       /\ \A k \in DOMAIN others : us[k] = ts[others[k]]
       /\ last.type = "EPSILON" /\ last.target >= Len(g.states)
       /\ LStateOf(after, last.target).stateType = "BASIC"
       /\ Len(LStateOf(after, last.target).transitions) = 1
       /\ \A e \in ends : MergedMatch(union, e, LStateOf(after, last.target).transitions[1])

AlternativesRemoved(g, after) ==
  LET ds == {g.decisionToState[k] : k \in DOMAIN g.decisionToState}
  IN SumOver([d \in ds |-> Len(OptimizedOf(LStateOf(g, d))) - Len(OptimizedOf(LStateOf(after, d)))],
             ds)

SetsAsStated(g, r) ==
  /\ \A k \in DOMAIN g.decisionToState : CollapsedAsStated(g, r.g, g.decisionToState[k])
  /\ r.count = AlternativesRemoved(g, r.g)

\* C32 as stated: the set-collapse pass merges alternatives of a decision only
\* when more than one of them is an epsilon transition onto a single atom,
\* range or set match onto a block end and all of these lead to one block end;
\* the merged match leads to that block end and carries the union of the
\* labels, as an atom, a range or a set; the other alternatives are kept; the
\* count is the number of alternatives removed. Violated when the merged
\* alternatives lead to different block ends.
C32_SetsAsStated ==
  loader.phase = "optimize" =>
    \A g \in {SetsInput(loader.atn)} : SetsAsStated(g, OptimizeSets(g, g.grammarType = "LEXER"))

\* Transition k of state n may be spliced: every transition of n is an epsilon
\* transition, the rule does not end on n, the transition is a plain epsilon
\* transition without marker onto a basic state with epsilon transitions only,
\* none of them with a marker.
MaySplice(g, n, k) ==
  LET edge == OptimizedOf(LStateOf(g, n))[k]
      m == LStateOf(g, edge.target)
  IN /\ LStateOf(g, n).epsilonOnly
     /\ LStateOf(g, n).stateType # "RULE_STOP"
     /\ edge.type = "EPSILON" /\ edge.marker = -1
     /\ m.stateType = "BASIC" /\ m.epsilonOnly
     /\ \A j \in DOMAIN OptimizedOf(m) :
          OptimizedOf(m)[j].type = "EPSILON" /\ OptimizedOf(m)[j].marker = -1

\* The list of state n with each transition that may be spliced replaced, in
\* place, by epsilon transitions to the targets of the state it leads to.
SplicedList(g, n) ==
  LET ts == OptimizedOf(LStateOf(g, n))
      downstream(k) == OptimizedOf(LStateOf(g, ts[k].target))
  IN Flatten([k \in DOMAIN ts |->
       IF MaySplice(g, n, k)
       THEN [j \in DOMAIN downstream(k) |-> EpsilonTransition(downstream(k)[j].target, -1)]
       ELSE <<ts[k]>>])

SplicedAt(g, n) == {k \in DOMAIN OptimizedOf(LStateOf(g, n)) : MaySplice(g, n, k)}

\* State n is rewritten as said, the count grows by the number of transitions
\* spliced, no other state is touched; and so on for the states after n.
RECURSIVE CombinesFrom(_, _)
CombinesFrom(p, n) ==
  IF n >= Len(p.g.states) THEN CombineFrom(p, n) = p
  ELSE \A q \in {CombineState(p, n)} :
         /\ OptimizedOf(LStateOf(q.g, n)) = SplicedList(p.g, n)
         /\ q.count = p.count + Cardinality(SplicedAt(p.g, n))
         /\ \A m \in StateNumbers(p.g) \ {n} : LStateOf(q.g, m) = LStateOf(p.g, m)
         /\ CombinesFrom(q, n + 1)

CombineAsStated(g) == CombinesFrom(Pass(g, 0), 0)

\* C33: the epsilon-combining pass splices a transition s -> m only when every
\* transition of s is an epsilon transition, m is a basic state whose
\* optimized transitions are all epsilon transitions, and no marker is on
\* s -> m or on a transition out of m; the spliced transition is replaced in
\* place by one epsilon transition without marker to each target of m, in
\* order; every other transition stays as it is; the count is the number of
\* transitions spliced.
C33_CombineSplices ==
  loader.phase = "optimize" => CombineAsStated(InlineSetRules(loader.atn).g)

\* The pass is about to splice a transition, next to one it has to keep.
C33_Witness ==
  /\ loader.phase = "optimize"
  /\ \E g \in {InlineSetRules(loader.atn).g} :
       \E n \in StateNumbers(g) :
         /\ SplicedAt(g, n) # {}
         /\ SplicedList(g, n) # OptimizedOf(LStateOf(g, n))
         /\ \E m \in StateNumbers(g) :
              /\ LStateOf(g, m).epsilonOnly
              /\ OptimizedOf(LStateOf(g, m)) # <<>>
              /\ SplicedAt(g, m) = {}

\* ------------------------------ Claims about loops that have to end
\* C34 as stated: the optimization loop ends on every loaded graph, also on
\* one with a cycle of epsilon transitions through basic states. If it does, no
\* round reports changes and hands on the graph it was given: the next round
\* would be given the same graph and do the same, and so on without end.
\* Violated by a basic state whose only transition is an epsilon transition
\* onto itself.
C34_LoopEnds ==
  loader.phase = "optimize" =>
    \A r \in {OptimizeRound(loader.atn)} : r.count # 0 => r.g # loader.atn

\* C35 as stated: the search for tail calls ends for every rule call of every
\* graph, also when a cycle of epsilon transitions lies behind the call's
\* follow state, since a state that was visited is not expanded again.
\* Violated by a follow state with an epsilon transition onto itself: nothing
\* marks a state as visited, and the walk takes it from the stack again and
\* again.
C35_WalkEnds ==
  loader.phase = "tailcalls" => ~TailCallsDiverge(loader.atn)

\* ------------------------------ Claims about the rule bypass transitions
\* The star loop entries of rule i that end the prefix of a precedence rule:
\* their last transition leads to a loop end whose transitions are epsilon
\* transitions, the first of them to a rule stop state.
PrefixEnds(g, i) ==
  {n \in StateNumbers(g) :
     /\ LStateOf(g, n).ruleIndex = i
     /\ LStateOf(g, n).stateType = "STAR_LOOP_ENTRY"
     /\ LStateOf(g, n).transitions # <<>>
     /\ \E m \in {Last(LStateOf(g, n).transitions).target} :
          /\ LStateOf(g, m).stateType = "LOOP_END"
          /\ LStateOf(g, m).epsilonOnly
          /\ LStateOf(g, LStateOf(g, m).transitions[1].target).stateType = "RULE_STOP"}

\* The point the bypass of rule i leads to: the rule's stop state, the end of
\* the prefix for a precedence rule.
EndPoint(g, i) ==
  IF LStateOf(g, RuleStart(g, i)).isPrecedenceRule
  THEN CHOOSE n \in PrefixEnds(g, i) : \A m \in PrefixEnds(g, i) : n <= m
  ELSE RuleStop(g, i)

\* Transition t of state n as it is after the bypass of rule i: onto the
\* bypass end when it led to the end point, but for the transition back from
\* the loop of a precedence rule.
Bypassed(g, i, n, t) ==
  IF /\ t.target = EndPoint(g, i)
     /\ ~(LStateOf(g, RuleStart(g, i)).isPrecedenceRule /\ LStateOf(g, n).stateType = "STAR_LOOP_BACK")
  THEN [t EXCEPT !.target = Len(g.states) + 1]
  ELSE t

\* Graph h is graph g with the bypass of rule i.
BypassAsStated(g, h, i) ==
  LET start == RuleStart(g, i)
      bypassStart == Len(g.states)
      bypassStop == Len(g.states) + 1
      matchState == Len(g.states) + 2
      left == LStateOf(g, start).transitions
      carried == LStateOf(h, bypassStart).transitions
  IN IF LStateOf(g, start).isPrecedenceRule /\ PrefixEnds(g, i) = {}
     THEN h.error # ""
     ELSE /\ h.error = ""
          /\ h.ruleToTokenType[i + 1] = g.maxTokenType + i + 1
          /\ Len(h.states) = Len(g.states) + 3
          /\ LStateOf(h, bypassStart).stateType = "BLOCK_START"
          /\ LStateOf(h, bypassStop).stateType = "BLOCK_END"
          /\ LStateOf(h, matchState).stateType = "BASIC"
          /\ h.decisionToState = Append(g.decisionToState, bypassStart)
          /\ LStateOf(h, bypassStart).decision = Len(g.decisionToState)
          /\ LStateOf(h, start).transitions = <<EpsilonTransition(bypassStart, -1)>>
          /\ Len(carried) = Len(left) + 1
          /\ Last(carried) = EpsilonTransition(matchState, -1)
          /\ \A k \in DOMAIN left : \E j \in DOMAIN left :
               carried[j] = Bypassed(g, i, start, left[k])
          /\ \A j \in DOMAIN left : \E k \in DOMAIN left :
               carried[j] = Bypassed(g, i, start, left[k])
          /\ LStateOf(h, matchState).transitions =
               <<AtomTransition(bypassStop, g.maxTokenType + i + 1)>>
          /\ LStateOf(h, bypassStop).transitions = <<EpsilonTransition(EndPoint(g, i), -1)>>
          /\ \A n \in StateNumbers(g) \ {start} :
               /\ Len(LStateOf(h, n).transitions) = Len(LStateOf(g, n).transitions)
               /\ \A k \in DOMAIN LStateOf(g, n).transitions :
                    LStateOf(h, n).transitions[k] = Bypassed(g, i, n, LStateOf(g, n).transitions[k])

\* C36: when rule bypass transitions are asked for on a parser grammar, rule i
\* gets the token type maxTokenType + i + 1 and three new states: a block
\* start that is a new decision, a block end and a basic match state. After
\* that the rule start has one transition, an epsilon transition to the block
\* start; the block start has the transitions that left the rule start and an
\* epsilon transition to the match state; the match state has one atom
\* transition on the rule's token type to the block end; every transition that
\* led to the rule's end point, but for the transition back from the loop of
\* a precedence rule, leads to the block end; the block end has one epsilon
\* transition to the end point. For a precedence rule without a star loop
\* entry that ends its prefix the load fails.
C36_Bypass ==
  [][loader.phase = "bypass" /\ loader.options.generateRuleBypassTransitions
        /\ loader.atn.grammarType = "PARSER"
       => BypassAsStated(loader.atn, loader'.atn, loader.i)]_vars

\* The bypass of a precedence rule is done: the transition back from the loop
\* still leads to the loop entry, the transition out of the prefix does not.
C36_Witness ==
  /\ loader.blob = "prec"
  /\ loader.options.generateRuleBypassTransitions
  /\ loader.phase \notin {"bypass", "failed"}
  /\ Len(loader.atn.states) >= Declared + 6
  /\ \E n, m \in StateNumbers(loader.atn) :
       /\ LStateOf(loader.atn, n).stateType = "STAR_LOOP_BACK"
       /\ LStateOf(loader.atn, LStateOf(loader.atn, n).transitions[1].target).stateType
            = "STAR_LOOP_ENTRY"
       /\ LStateOf(loader.atn, m).ruleIndex = 1
       /\ LStateOf(loader.atn, m).stateType = "BASIC"
       /\ LStateOf(loader.atn, m).transitions # <<>>
       /\ LStateOf(loader.atn, LStateOf(loader.atn, m).transitions[1].target).stateType
            = "BLOCK_END"
       /\ LStateOf(loader.atn, m).transitions[1].target >= Declared

\* ---------------------------------------------------------------------------
\* The next symbols of a call frame (GrapsDebugger.computeNextSymbols and
\* nextCandidates).  A symbol table is a sequence of symbols; a symbol is known
\* by its position, and 0 stands for "no symbol".  The table answers what the
\* code asks of a symbol: its class, its name, the token type of its terminal
\* node, next, nextSibling and children.  The symbols of a rule are nested as
\* rule, block, alternative, element; next is the following symbol in
\* definition order (the first child of a scope that has children).
\* ---------------------------------------------------------------------------

Sym(kind, name, type, next, nextSibling, children) ==
  [kind |-> kind, name |-> name, type |-> type, next |-> next,
   nextSibling |-> nextSibling, children |-> children]

\* a: B+ C ;
TablePlusLeaf ==
  << Sym("rule", <<"a">>, 0, 2, 0, <<2>>),
     Sym("block", <<>>, 0, 3, 0, <<3>>),
     Sym("alternative", <<>>, 0, 4, 0, <<4, 5, 6>>),
     Sym("token", <<"B">>, 1, 5, 5, <<>>),
     Sym("ebnf", <<"+">>, 0, 6, 6, <<>>),
     Sym("token", <<"C">>, 2, 0, 0, <<>>) >>

\* a: B+ (C | a) ;
TablePlusBlock ==
  << Sym("rule", <<"a">>, 0, 2, 0, <<2>>),
     Sym("block", <<>>, 0, 3, 0, <<3>>),
     Sym("alternative", <<>>, 0, 4, 0, <<4, 5, 6>>),
     Sym("token", <<"B">>, 1, 5, 5, <<>>),
     Sym("ebnf", <<"+">>, 0, 6, 6, <<>>),
     Sym("block", <<>>, 0, 7, 0, <<7, 9>>),
     Sym("alternative", <<>>, 0, 8, 9, <<8>>),
     Sym("token", <<"C">>, 2, 9, 0, <<>>),
     Sym("alternative", <<>>, 0, 10, 0, <<10>>),
     Sym("ruleref", <<"a">>, 0, 0, 0, <<>>) >>

\* a: B+ ;
TablePlusEnd ==
  << Sym("rule", <<"a">>, 0, 2, 0, <<2>>),
     Sym("block", <<>>, 0, 3, 0, <<3>>),
     Sym("alternative", <<>>, 0, 4, 0, <<4, 5>>),
     Sym("token", <<"B">>, 1, 5, 5, <<>>),
     Sym("ebnf", <<"+">>, 0, 0, 0, <<>>) >>

\* a: (B | C)? D ;
TableOptional ==
  << Sym("rule", <<"a">>, 0, 2, 0, <<2>>),
     Sym("block", <<>>, 0, 3, 0, <<3>>),
     Sym("alternative", <<>>, 0, 4, 0, <<4, 9, 10>>),
     Sym("block", <<>>, 0, 5, 9, <<5, 7>>),
     Sym("alternative", <<>>, 0, 6, 7, <<6>>),
     Sym("token", <<"B">>, 1, 7, 0, <<>>),
     Sym("alternative", <<>>, 0, 8, 0, <<8>>),
     Sym("token", <<"C">>, 2, 9, 0, <<>>),
     Sym("ebnf", <<"?">>, 0, 10, 10, <<>>),
     Sym("token", <<"D">>, 3, 0, 0, <<>>) >>

\* a: b* C | B b ;
TableCalls ==
  << Sym("rule", <<"a">>, 0, 2, 0, <<2>>),
     Sym("block", <<>>, 0, 3, 0, <<3, 7>>),
     Sym("alternative", <<>>, 0, 4, 7, <<4, 5, 6>>),
     Sym("ruleref", <<"b">>, 0, 5, 5, <<>>),
     Sym("ebnf", <<"*">>, 0, 6, 6, <<>>),
     Sym("token", <<"C">>, 2, 7, 0, <<>>),
     Sym("alternative", <<>>, 0, 8, 0, <<8, 9>>),
     Sym("token", <<"B">>, 1, 9, 9, <<>>),
     Sym("ruleref", <<"b">>, 0, 0, 0, <<>>) >>

SymbolTableNames == {"plusleaf", "plusblock", "plusend", "optional", "calls"}

SymbolTableOf(name) ==
  CASE name = "plusleaf" -> TablePlusLeaf
    [] name = "plusblock" -> TablePlusBlock
    [] name = "plusend" -> TablePlusEnd
    [] name = "optional" -> TableOptional
    [] name = "calls" -> TableCalls

\* The rule names of the parser of these grammars.
SymbolRuleNames == << <<"a">>, <<"b">> >>

IsEbnfSuffixSymbol(table, s) == table[s].kind = "ebnf"
IsScopedSymbol(table, s) == table[s].kind \in {"rule", "block", "alternative"}
IsRuleReferenceSymbol(table, s) == table[s].kind = "ruleref"
HasTerminalNode(table, s) == table[s].kind = "token"

\* GrapsDebugger.nextCandidates.
RECURSIVE nextCandidates(_, _)
nextCandidates(table, start) ==
  LET next == table[start].next IN
  IF next = 0 THEN <<>>
  ELSE
    LET suffix == IsEbnfSuffixSymbol(table, next)
        result == IF suffix /\ Head(table[next].name) = "+" THEN <<start>> ELSE <<>>
        after == IF suffix THEN table[next].next ELSE next
    IN IF after = 0 THEN <<>>
       ELSE IF ~IsScopedSymbol(table, after) THEN <<after>>
       ELSE
         LET children == table[after].children
             inner == result \o Flatten([i \in 1..Len(children) |->
                                           nextCandidates(table, children[i])])
             sibling == table[after].nextSibling
         IN IF /\ sibling # 0
               /\ IsEbnfSuffixSymbol(table, sibling)
               /\ Head(table[sibling].name) \in {"?", "*"}
            THEN inner \o nextCandidates(table, sibling)
            ELSE inner

\* The transitions a recomputation is made for: their serialization type, the
\* state type and rule of their target, and their label (no token types where
\* the transition has no label).
SymbolTransition(type, stateType, ruleIndex, label) ==
  [serializationType |-> type, target |-> [stateType |-> stateType, ruleIndex |-> ruleIndex],
   label |-> label]

SymbolTransitions ==
  { SymbolTransition("RULE", "RULE_START", 0, {}),
    SymbolTransition("RULE", "RULE_START", 1, {}),
    SymbolTransition("ATOM", "BASIC", 0, {1}),
    SymbolTransition("ATOM", "BASIC", 0, {2}),
    SymbolTransition("SET", "BASIC", 0, {1, 2}),
    SymbolTransition("SET", "BLOCK_END", 0, {2, 3}),
    SymbolTransition("NOT_SET", "BASIC", 0, {3}),
    SymbolTransition("WILDCARD", "BASIC", 0, {}) }

\* The candidates computeNextSymbols keeps all, whatever the transition.
AdmitsAll(table, candidate, transition) == TRUE

\* The test computeNextSymbols makes of one candidate.
Admits(table, candidate, transition) ==
  LET targetRule == IF transition.target.stateType = "RULE_START"
                    THEN SymbolRuleNames[transition.target.ruleIndex + 1]
                    ELSE <<>>
  IN IF IsRuleReferenceSymbol(table, candidate)
     THEN table[candidate].name = targetRule
     ELSE /\ HasTerminalNode(table, candidate)
          /\ table[candidate].type \in transition.label

RECURSIVE SelectAdmitted(_, _, _)
SelectAdmitted(table, candidates, transition) ==
  IF candidates = <<>> THEN <<>>
  ELSE (IF Admits(table, Head(candidates), transition) THEN <<Head(candidates)>> ELSE <<>>)
       \o SelectAdmitted(table, Tail(candidates), transition)

\* GrapsDebugger.computeNextSymbols: the new frame.next.
computeNextSymbols(table, current, transition) ==
  SelectAdmitted(table,
                 Flatten([i \in 1..Len(current) |-> nextCandidates(table, current[i])]),
                 transition)

MaxRecomputes == 3

SymbolsInit ==
  /\ hasParser = FALSE /\ grammar = "seq" /\ symbolTable = {}
  /\ input = <<>>
  /\ breakPoints = <<>>
  /\ nextBreakPointId = 0
  /\ parseTree = Undefined
  /\ parser = InitialParser
  /\ stream = <<"EOF">>
  /\ call = NoCall
  /\ visit = NoVisit
  /\ pending = <<>>
  /\ delivered = <<>>
  /\ ncalls = 0
  /\ script = 0
  /\ loader = NoLoad
  /\ backend = NoBackend
  /\ symbols \in {[phase |-> "table", table |-> t] : t \in SymbolTableNames}

\* continue at a rule start state: the new frame starts at the rule's symbol.
StartFrame ==
  /\ symbols.phase = "table"
  /\ symbols' = [phase |-> "frame", table |-> symbols.table, current |-> <<1>>, next |-> <<1>>,
                 transition |-> SymbolTransition("EPSILON", "RULE_START", 0, {}), computed |-> 0]
  /\ UNCHANGED <<debuggerVars, loader, backend>>

\* continue at a state with one transition of a matching kind: the next
\* symbols become the current ones and the next ones are computed anew.
Recompute(transition) ==
  /\ symbols.phase = "frame"
  /\ symbols.computed < MaxRecomputes
  /\ symbols' = [symbols EXCEPT !.current = symbols.next,
                                !.next = computeNextSymbols(SymbolTableOf(symbols.table),
                                                            symbols.next, transition),
                                !.transition = transition,
                                !.computed = @ + 1]
  /\ UNCHANGED <<debuggerVars, loader, backend>>

SymbolsNext ==
  \/ StartFrame
  \/ \E transition \in SymbolTransitions : Recompute(transition)

SymbolsSpec == SymbolsInit /\ [][SymbolsNext]_vars

\* The symbols reachable from the current ones.
ReachableLeaves(table, current) ==
  UNION { {nextCandidates(table, current[i])[k] :
             k \in 1..Len(nextCandidates(table, current[i]))} : i \in 1..Len(current) }

\* A leaf agrees with a transition: a rule reference with a call of the rule
\* of that name, a terminal with a transition whose label holds its type.
ConsistentLeaf(table, leaf, transition) ==
  IF transition.serializationType = "RULE"
  THEN /\ table[leaf].kind = "ruleref"
       /\ table[leaf].name = SymbolRuleNames[transition.target.ruleIndex + 1]
  ELSE /\ table[leaf].kind = "token"
       /\ table[leaf].type \in transition.label

PlusFollows(table, start) ==
  /\ table[start].next # 0
  /\ table[table[start].next].kind = "ebnf"
  /\ Head(table[table[start].next].name) = "+"

\* What the search is to return for a start symbol before a one-or-more
\* wrapper: the start symbol, and what follows the wrapper.
PlusReadmits(table, start) ==
  LET after == table[table[start].next].next
      found == ReachableLeaves(table, <<start>>)
  IN /\ start \in found
     /\ after # 0 /\ ~IsScopedSymbol(table, after) => after \in found
     /\ after # 0 /\ IsScopedSymbol(table, after) =>
          ReachableLeaves(table, table[after].children) \subseteq found

\* C38: when the symbol after the start symbol is a '+' wrapper, the search
\* returns the start symbol itself and what follows the wrapper, be the wrapper
\* followed by a leaf, by a block or by nothing.
C38_PlusReadmits ==
  symbols.phase = "frame" =>
    \A table \in {SymbolTableOf(symbols.table)} :
      \A i \in 1..Len(symbols.current) :
        PlusFollows(table, symbols.current[i]) => PlusReadmits(table, symbols.current[i])

\* C39: whenever continue recomputes the next symbols (the state it is at has
\* one transition, of a kind that is recomputed for), the call stack is not
\* empty: no start or step call fails reading the top frame, also when the
\* symbol table does not resolve the name of a rule that was entered.
C39_TopFrameExists ==
  (/\ hasParser
   /\ parser.state \in DOMAIN atn.states
   /\ RecomputesNextSymbols(parser.state)) =>
    /\ parser.callStack # <<>>
    /\ call.event # "TypeError"

\* The bypass is asked for and applies to this graph; it is complete when
\* every rule has its pair.
BypassRequested ==
  loader.options.generateRuleBypassTransitions /\ loader.atn.grammarType = "PARSER"
BypassComplete == loader.i = Len(loader.atn.ruleToStartState)

\* A step that runs the consistency check.
Verifies == loader'.verifications = loader.verifications + 1

\* C40 (as stated): the check never runs on a graph for which the requested
\* bypass construction or the enabled optimization is still to be done, and a
\* load that verifies runs it once, and once more when optimization is enabled.
C40_VerifiedOnlyWhenDone ==
  /\ [][Verifies =>
          /\ BypassRequested => BypassComplete
          /\ loader.options.optimize => loader.phase = "verify optimized"]_vars
  /\ [](Loaded /\ loader.options.verifyATN =>
          loader.verifications = 1 + (IF loader.options.optimize THEN 1 ELSE 0))

\* C40 (amended): the check runs only when verification is requested: once on
\* the graph as read, before any bypass pair exists and before any round of
\* the optimizer; once more after the bypass pairs of all rules are built, when
\* the bypass is asked for and the graph is a parser's; and once more after
\* the round of the optimizer that changed nothing, when optimization is
\* enabled.  It never runs between two bypass pairs or between two rounds.
C40_VerificationOrder ==
  /\ [][Verifies =>
          /\ loader.options.verifyATN
          /\ loader.phase = "verify" =>
               loader.i = 0 /\ loader.rounds = 0 /\ loader.verifications = 0
          /\ loader.phase = "reverify" =>
               /\ BypassRequested /\ BypassComplete
               /\ loader.rounds = 0 /\ loader.verifications = 1
          /\ loader.phase = "verify optimized" =>
               /\ loader.options.optimize /\ loader.rounds > 0
               /\ BypassRequested => BypassComplete
               /\ \A r \in {OptimizeRound(loader.atn)} : r.count = 0
               /\ loader.verifications = 1 + (IF BypassRequested THEN 1 ELSE 0)]_vars
  /\ [](Loaded =>
          loader.verifications =
            IF loader.options.verifyATN
            THEN 1 + (IF BypassRequested THEN 1 ELSE 0)
                   + (IF loader.options.optimize THEN 1 ELSE 0)
            ELSE 0)

\* A load that ran the check three times: as read, after the bypass pairs of
\* more than one rule, and after more than one round of the optimizer.
C40_Witness ==
  /\ Loaded
  /\ loader.verifications = 3
  /\ loader.i > 1
  /\ loader.rounds > 1

====
